---- MODULE Spec2Model ----
(***************************************************************************)
(* Verification model of the thermostat local server: the device           *)
(* configuration policy (apply_initial_config.py), the remote command      *)
(* executor and acknowledgment queue (public_sync/), the minute upload     *)
(* checkpoint (upload_services.py, thermostat_server.py), the local mode   *)
(* route (api/thermostat_routes.py) and the discovery command handler      *)
(* (discovery_command_handler.py).                                         *)
(*                                                                         *)
(* Temperatures are integers in hundredths of a degree Fahrenheit, so that *)
(* the 0.1 degree read-back tolerance has values strictly inside it.       *)
(* Python None and a missing dict key are the integers Null and Absent.    *)
(***************************************************************************)
EXTENDS Integers, Sequences, FiniteSets, TLC

VARIABLES
    tstat,            \* the physical thermostats: device -> /tstat fields
    deviceConfig,     \* DeviceConfigState: device -> last applied values
    thermostats,      \* StateStore thermostats table: device -> row
    posts,            \* POST /tstat requests sent by the operation in progress
    lastCmd,          \* the last command executed on a device, with its outcome
    cfg,              \* position of the configuration task (ConfigPolicy)
    command_acks,     \* EnhancedPublicServerSync.command_acks
    ackSend,          \* _send_command_acks: idle, or a results POST in flight
    pending,          \* ids returned by the current poll and not yet executed
    issued,           \* number of command ids the remote service has issued
    ackCount,         \* command id -> acknowledgments ever queued for it
    delivered,        \* command ids contained in an accepted results POST
    dropped,          \* command ids dropped by the overflow truncation
    clock,            \* wall clock, in ticks
    rollupNow,        \* _rollup_service: the time read at the top of its loop
    minute_readings,  \* StateStore minute_readings rows
    checkpoint,       \* StateStore sync_checkpoint row minute_upload
    acceptedRows,     \* minute rows contained in a batch the remote accepted
    minRun,           \* the last run of _upload_minute_data
    syncStarted,      \* EnhancedPublicServerSync.start has run
    pollStart,        \* the time the polling and rollup tasks were created
    active_discovery, \* DiscoveryCommandHandler.active_discovery (command id)
    phase_history,    \* DiscoveryCommandHandler.phase_history
    discRun,          \* command id -> position of its execute_discovery_command
    discResult,       \* command id -> DiscoveryCommandResult
    progress,         \* the handler's progress reports and the final reports sent
    date_today,       \* date.today() as <<month, day>>
    seasonal_result,  \* the value returned by _determine_seasonal_config
    safe_config,      \* the configuration handed to _build_safe_thermostat_command
    safe_command,     \* the command it returned
    reg,              \* task -> position of its _register_and_configure_devices
    inserted,         \* device -> rows ever inserted into thermostats for its id
    registrations,    \* number of devices the registration path has processed
    prev_reading,     \* _detect_state_change: the cached previous_status
    cur_reading,      \* _detect_state_change: the argument current_status
    detected,         \* the value _detect_state_change returned
    last_states,      \* ThermostatServer._last_states: device -> cached reading
    pollCycle,        \* the polling cycle in progress: devices polled, to poll, saved
    lastPoll,         \* the last _poll_single_and_store: device and what it did
    upload_queue,     \* UploadServices.upload_queue: devices of the queued updates
    batch_buffer,     \* immediate_upload_processor: batch_buffer
    procRun,          \* immediate_upload_processor: position and current_time
    last_batch_time,  \* immediate_upload_processor: last_batch_time
    last_immediate_upload, \* UploadServices.last_immediate_upload
    status_checkpoint,\* StateStore sync_checkpoint row status_upload
    statusSvc,        \* status_upload_service: position and start of its sleep
    lastTick,         \* the last fallback tick: its time and its decision
    lastFallback,     \* the last _upload_current_status_fallback: its outcome
    flushHist,        \* times of the flushes of the immediate batch so far
    lastStatusWrite,  \* the last write of the status_upload checkpoint and its cause
    postRun,          \* an outbound POST: its sender, the responses so far, its result
    scan,             \* discover_tcp_progressive: its counters and the callbacks made
    remoteReg,        \* _handle_device_registration of a remote discovery command
    srv,              \* ThermostatServer: positions of start() and stop(), running, tasks
    taskState,        \* asyncio task -> none, pending, finished or cancelled
    stopLog,          \* what stop() has done so far, in order
    sweep,            \* DiscoveryCommandHandler._execute_discovery_phases: the devices each phase finds
    relay,            \* the two status upload paths with the ages of their timers, and the changes not yet uploaded
    ackTrim,          \* _send_command_acks on a long queue: the queue before and after the send
    identity          \* device addresses, the known-devices registry and the thermostats rows

devVars == <<tstat, deviceConfig, thermostats, posts, lastCmd>>
cfgVars == <<cfg>>
syncVars == <<command_acks, ackSend, pending, issued, ackCount, delivered, dropped>>
minVars == <<clock, rollupNow, minute_readings, checkpoint, acceptedRows, minRun, syncStarted, pollStart>>
discVars == <<active_discovery, phase_history, discRun, discResult, progress>>
fnVars == <<date_today, seasonal_result, safe_config, safe_command>>
regVars == <<reg, inserted, registrations>>
detVars == <<prev_reading, cur_reading, detected>>
pollVars == <<last_states, pollCycle, lastPoll>>
postVars == <<postRun>>
scanVars == <<scan>>
rregVars == <<remoteReg>>
lifeVars == <<srv, taskState, stopLog>>
sweepVars == <<sweep>>
relayVars == <<relay>>
trimVars == <<ackTrim>>
idVars == <<identity>>
tailVars == <<postVars, scanVars, rregVars, lifeVars, sweepVars, relayVars, trimVars, idVars>>
upVars == <<upload_queue, batch_buffer, procRun, last_batch_time, last_immediate_upload,
           status_checkpoint, statusSvc, lastTick, lastFallback, flushHist, lastStatusWrite>>
exceptUp == <<devVars, cfgVars, syncVars, discVars, fnVars, regVars, detVars, pollVars, tailVars,
              rollupNow, minute_readings, checkpoint, acceptedRows, minRun, pollStart>>
lateVars == <<fnVars, regVars, detVars, pollVars, upVars, tailVars>>
exceptFn == <<devVars, cfgVars, syncVars, minVars, discVars, regVars, detVars, pollVars, upVars, tailVars>>
exceptReg == <<cfgVars, syncVars, minVars, discVars, fnVars, detVars, pollVars, upVars, tailVars>>
exceptDet == <<devVars, cfgVars, syncVars, minVars, discVars, fnVars, regVars, pollVars, upVars, tailVars>>
exceptPoll == <<devVars, cfgVars, syncVars, minVars, discVars, fnVars, regVars, detVars, tailVars>>
oldVars == <<devVars, cfgVars, syncVars, minVars, discVars, fnVars, regVars, detVars, pollVars, upVars>>
exceptPost == <<oldVars, scanVars, rregVars, lifeVars, sweepVars, relayVars, trimVars, idVars>>
exceptScan == <<oldVars, postVars, rregVars, lifeVars, sweepVars, relayVars, trimVars, idVars>>
exceptRreg == <<oldVars, postVars, scanVars, lifeVars, sweepVars, relayVars, trimVars, idVars>>
exceptLife == <<oldVars, postVars, scanVars, rregVars, sweepVars, relayVars, trimVars, idVars>>
exceptSweep == <<oldVars, postVars, scanVars, rregVars, lifeVars, relayVars, trimVars, idVars>>
exceptRelay == <<oldVars, postVars, scanVars, rregVars, lifeVars, sweepVars, trimVars, idVars>>
exceptTrim == <<oldVars, postVars, scanVars, rregVars, lifeVars, sweepVars, relayVars, idVars>>
exceptId == <<oldVars, postVars, scanVars, rregVars, lifeVars, sweepVars, relayVars, trimVars>>
vars == <<devVars, cfgVars, syncVars, minVars, discVars, lateVars>>

(***************************************************************************)
(* Values                                                                  *)
(***************************************************************************)
\* a dict key that is missing
Absent == 0 - 1
\* a dict key that is present with the value None
Null == 0 - 2

Deg(n) == n * 100

Devices == {"d1", "d2"}

OFF == 0
HEAT == 1
COOL == 2

NoPayload ==
    [tmode |-> Absent, t_heat |-> Absent, t_cool |-> Absent, hold |-> Absent,
     fmode |-> Absent, time |-> Absent]

\* DeviceConfigManager.apply_initial_settings: the settings always maintained
initial_settings == [NoPayload EXCEPT !.fmode = 0]

HeatingSeasonStart == <<11, 16>>
HeatingSeasonEnd == <<4, 14>>

\* date comparison a <= b on <<month, day>> pairs of one year
DateLE(a, b) == a[1] < b[1] \/ (a[1] = b[1] /\ a[2] <= b[2])

\* the seasonal rule with the heating season ending one day late
determine_seasonal_config_late(day) ==
    IF DateLE(HeatingSeasonStart, day) \/ DateLE(day, <<4, 15>>)
    THEN [season |-> "heating",
          config |-> [NoPayload EXCEPT !.tmode = HEAT, !.t_heat = Deg(50), !.fmode = 0]]
    ELSE [season |-> "cooling",
          config |-> [NoPayload EXCEPT !.tmode = OFF, !.fmode = 0]]

\* DeviceConfigManager._determine_seasonal_config
determine_seasonal_config(day) ==
    IF DateLE(HeatingSeasonStart, day) \/ DateLE(day, HeatingSeasonEnd)
    THEN [season |-> "heating",
          config |-> [NoPayload EXCEPT !.tmode = HEAT, !.t_heat = Deg(50), !.fmode = 0]]
    ELSE [season |-> "cooling",
          config |-> [NoPayload EXCEPT !.tmode = OFF, !.fmode = 0]]

\* a command builder that leaves the hold flag out of the command
build_safe_thermostat_command_no_hold(config) ==
    LET tm == IF config.tmode \in {Absent, Null} THEN Absent
              ELSE IF config.tmode \in {OFF, HEAT} THEN config.tmode ELSE OFF
        th == IF tm = HEAT /\ config.t_heat \notin {Absent, Null} THEN config.t_heat ELSE Absent
        keep(v) == IF v \in {Absent, Null} THEN Absent ELSE v
    IN  [NoPayload EXCEPT !.tmode = tm, !.t_heat = th, !.fmode = keep(config.fmode)]

\* DeviceConfigManager._build_safe_thermostat_command
build_safe_thermostat_command(config) ==
    LET tm == IF config.tmode \in {Absent, Null} THEN Absent
              ELSE IF config.tmode \in {OFF, HEAT} THEN config.tmode ELSE OFF
        th == IF tm = HEAT /\ config.t_heat \notin {Absent, Null} THEN config.t_heat ELSE Absent
        keep(v) == IF v \in {Absent, Null} THEN Absent ELSE v
    IN  [NoPayload EXCEPT !.tmode = tm, !.t_heat = th,
                          !.hold = keep(config.hold), !.fmode = keep(config.fmode)]

\* DeviceConfigManager._is_unsafe_setting
is_unsafe_setting(settings, day) ==
    settings.tmode = HEAT /\ determine_seasonal_config(day).season = "cooling"


(***************************************************************************)
(* The devices and the StateStore                                          *)
(***************************************************************************)
TstatStates ==
    [tmode : {OFF, HEAT, COOL}, t_heat : {Deg(50), Deg(68)}, t_cool : {Deg(78)},
     hold : {0, 1}, fmode : {0, 2}]

\* the device's handling of an accepted POST /tstat: the fields present are set
DeviceApply(st, payload) ==
    [st EXCEPT !.tmode = IF payload.tmode = Absent THEN @ ELSE payload.tmode,
               !.t_heat = IF payload.t_heat = Absent THEN @ ELSE payload.t_heat,
               !.t_cool = IF payload.t_cool = Absent THEN @ ELSE payload.t_cool,
               !.hold = IF payload.hold = Absent THEN @ ELSE payload.hold,
               !.fmode = IF payload.fmode = Absent THEN @ ELSE payload.fmode]

\* outcomes of one HTTP request to a device
HttpOutcomes == {"ok", "http_error", "exception"}

\* where the code treats a bad status and an exception alike
ReadOutcomes == {"ok", "exception"}

PostEntry(d, by, payload, outcome) ==
    [dev |-> d, by |-> by, payload |-> payload,
     hold_at_send |-> tstat[d].hold, outcome |-> outcome]

NoSettings == [ok |-> FALSE, tmode |-> Null, t_heat |-> Null, t_cool |-> Null, hold |-> Null]

\* DeviceConfigManager.read_thermostat_current_settings
read_thermostat_current_settings(d, outcome) ==
    IF outcome = "ok"
    THEN [ok |-> TRUE, tmode |-> tstat[d].tmode, t_heat |-> tstat[d].t_heat,
          t_cool |-> tstat[d].t_cool, hold |-> tstat[d].hold]
    ELSE NoSettings

NoConfigRow == [tmode_set |-> Null, t_heat_set |-> Null, t_cool_set |-> Null, hold_set |-> Null]

Given(v) == v \notin {Absent, Null}

\* DeviceConfigManager._save_config_to_database (t_cool is never saved from a config)
save_config_to_database(row, config) ==
    [row EXCEPT !.tmode_set = IF Given(config.tmode) THEN config.tmode ELSE @,
                !.t_heat_set = IF Given(config.t_heat) THEN config.t_heat ELSE @,
                !.hold_set = IF Given(config.hold) THEN config.hold ELSE @]

\* a mirror that records the mode and the setpoints but not the hold flag
update_db_from_thermostat_no_hold(row, settings) ==
    [row EXCEPT !.tmode_set = IF Given(settings.tmode) THEN settings.tmode ELSE @,
                !.t_heat_set = IF Given(settings.t_heat) THEN settings.t_heat ELSE @,
                !.t_cool_set = IF Given(settings.t_cool) THEN settings.t_cool ELSE @]

\* DeviceConfigManager._update_db_from_thermostat: mirror the values read
update_db_from_thermostat(row, settings) ==
    [row EXCEPT !.tmode_set = IF Given(settings.tmode) THEN settings.tmode ELSE @,
                !.t_heat_set = IF Given(settings.t_heat) THEN settings.t_heat ELSE @,
                !.t_cool_set = IF Given(settings.t_cool) THEN settings.t_cool ELSE @,
                !.hold_set = IF Given(settings.hold) THEN settings.hold ELSE @]

(***************************************************************************)
(* ConfigPolicy: ThermostatServer._register_and_configure_devices reads    *)
(* the device, then DeviceConfigManager.apply_intelligent_config runs its  *)
(* steps; the occupant may change the device between any two requests.     *)
(***************************************************************************)
Dates == {<<4, 14>>, <<4, 15>>, <<11, 15>>, <<11, 16>>}

DiscoveryTypes == {"startup", "periodic"}

\* the device a discovery hands to the policy; the other device is a bystander
Registered == {"d1"}

IdleCfg == [pc |-> "idle", dev |-> "d1", dtype |-> "startup", today |-> <<4, 14>>,
            settings |-> NoSettings, unsafe_warned |-> FALSE]

\* a policy that applies the seasonal defaults whatever the hold flag says
hold_disabled_ignored(settings) == settings.hold \in {0, 1}

\* apply_intelligent_config step 4: the hold test that selects the seasonal push
hold_disabled(settings) == settings.hold = 0

\* thermostat_server.py: the settings read that precedes apply_intelligent_config
CfgStart(d, dtype, today, outcome) ==
    /\ cfg.pc = "idle"
    /\ cfg' = [pc |-> "initial", dev |-> d, dtype |-> dtype, today |-> today,
               settings |-> read_thermostat_current_settings(d, outcome),
               unsafe_warned |-> FALSE]
    /\ posts' = <<>>
    /\ UNCHANGED <<tstat, deviceConfig, thermostats, lastCmd, syncVars, minVars, discVars, lateVars>>

\* apply_intelligent_config step 1: apply_initial_settings, best effort
CfgInitial(outcome) ==
    /\ cfg.pc = "initial"
    /\ posts' = Append(posts, PostEntry(cfg.dev, "config", initial_settings, outcome))
    /\ tstat' = IF outcome = "ok"
                THEN [tstat EXCEPT ![cfg.dev] = DeviceApply(@, initial_settings)]
                ELSE tstat
    /\ cfg' = [cfg EXCEPT !.pc = IF cfg.settings.ok THEN "decide" ELSE "read"]
    /\ UNCHANGED <<deviceConfig, thermostats, lastCmd, syncVars, minVars, discVars, lateVars>>

\* apply_intelligent_config step 2: read the settings when none were handed in
CfgRead(outcome) ==
    /\ cfg.pc = "read"
    /\ cfg' = [cfg EXCEPT !.pc = "decide",
                          !.settings = read_thermostat_current_settings(cfg.dev, outcome)]
    /\ UNCHANGED <<tstat, deviceConfig, thermostats, posts, lastCmd, syncVars, minVars, discVars, lateVars>>

\* DeviceConfigManager._apply_seasonal_safety_config (settings unreadable)
CfgFallback(outcome, timeOutcome, dbOk) ==
    /\ cfg.pc = "decide"
    /\ ~cfg.settings.ok
    /\ LET safety == [determine_seasonal_config(cfg.today).config EXCEPT !.hold = 1]
           command == build_safe_thermostat_command(safety)
           timeCmd == [NoPayload EXCEPT !.time = 1]
           sent == Append(posts, PostEntry(cfg.dev, "config", command, outcome))
       IN  /\ posts' = IF outcome = "exception" THEN sent
                       ELSE Append(sent, PostEntry(cfg.dev, "config", timeCmd, timeOutcome))
           /\ tstat' = IF outcome = "ok"
                       THEN [tstat EXCEPT ![cfg.dev] = DeviceApply(@, command)]
                       ELSE tstat
           /\ deviceConfig' = IF outcome = "ok" /\ dbOk
                              THEN [deviceConfig EXCEPT ![cfg.dev] = save_config_to_database(@, safety)]
                              ELSE deviceConfig
    /\ cfg' = [cfg EXCEPT !.pc = "done"]
    /\ UNCHANGED <<thermostats, lastCmd, syncVars, minVars, discVars, lateVars>>

\* DeviceConfigManager._apply_seasonal_defaults_with_hold (device reports hold = 0)
CfgSeasonal(outcome, dbOk) ==
    /\ cfg.pc = "decide"
    /\ cfg.settings.ok
    /\ hold_disabled(cfg.settings)
    /\ LET seasonal == [determine_seasonal_config(cfg.today).config EXCEPT !.hold = 1]
           config == IF seasonal.tmode \notin {OFF, HEAT}
                     THEN [seasonal EXCEPT !.tmode = OFF] ELSE seasonal
           command == build_safe_thermostat_command(config)
       IN  /\ posts' = Append(posts, PostEntry(cfg.dev, "config", command, outcome))
           /\ tstat' = IF outcome = "ok"
                       THEN [tstat EXCEPT ![cfg.dev] = DeviceApply(@, command)]
                       ELSE tstat
           /\ deviceConfig' = IF outcome = "ok" /\ dbOk
                              THEN [deviceConfig EXCEPT ![cfg.dev] = save_config_to_database(@, config)]
                              ELSE deviceConfig
    /\ cfg' = [cfg EXCEPT !.pc = "done"]
    /\ UNCHANGED <<thermostats, lastCmd, syncVars, minVars, discVars, lateVars>>

\* apply_intelligent_config, hold enabled: preserve the device, mirror it to the store
CfgPreserve(dbOk) ==
    /\ cfg.pc = "decide"
    /\ cfg.settings.ok
    /\ ~hold_disabled(cfg.settings)
    /\ deviceConfig' = IF dbOk
                       THEN [deviceConfig EXCEPT ![cfg.dev] = update_db_from_thermostat(@, cfg.settings)]
                       ELSE deviceConfig
    /\ cfg' = [cfg EXCEPT !.pc = "done",
                          !.unsafe_warned = cfg.dtype = "startup"
                                            /\ is_unsafe_setting(cfg.settings, cfg.today)]
    /\ UNCHANGED <<tstat, thermostats, posts, lastCmd, syncVars, minVars, discVars, lateVars>>

\* the occupant (or the device itself) changes the thermostat at the wall
\* between two requests of a run; a change made before the run is an initial state
Occupant(d, st) ==
    /\ cfg.pc \notin {"idle", "done"}
    /\ d = cfg.dev
    /\ st.fmode = tstat[d].fmode
    /\ st.t_cool = tstat[d].t_cool
    /\ st # tstat[d]
    /\ tstat' = [tstat EXCEPT ![d] = st]
    /\ UNCHANGED <<deviceConfig, thermostats, posts, cfg, lastCmd, syncVars, minVars, discVars, lateVars>>

(***************************************************************************)
(* CommandExecutor: LocalCommandExecutor in public_sync/command_executor.py*)
(***************************************************************************)
\* float('nan'), and a value that float() cannot convert
NaN == 0 - 3
NonNumeric == 0 - 4

\* Python float(): a number converts to itself, NaN included; anything else raises
PyFloat(v) == IF v = NonNumeric THEN [ok |-> FALSE, val |-> Null] ELSE [ok |-> TRUE, val |-> v]

\* IEEE comparison: every ordering comparison with NaN is false
FloatLT(a, b) == a # NaN /\ b # NaN /\ a < b

Abs(x) == IF x < 0 THEN 0 - x ELSE x

AwayTempMin == Deg(41)
AwayTempMax == Deg(76)
ReadbackTolerance == Deg(1) \div 10

ThermostatIds == Devices \cup {"dX"}

NoParams == [tmode |-> Absent, hold |-> Absent, t_heat |-> Absent, away_temp |-> Absent]

\* dict.get(key, None): a missing key reads as None
PyGet(v) == IF v = Absent THEN Null ELSE v

\* DatabaseAdapter.fetch_one for the ip_address query: found in the active
\* list or by direct lookup, so any stored row resolves
resolve_thermostat_ip(tid, dbOk) ==
    dbOk /\ tid \in Devices /\ thermostats[tid].present

\* the device states a read-back can show after an accepted POST: the state
\* applied, or what the device or the occupant made of it since
Drifts == {"same", "fail", "hold_flipped", "mode_changed", "heat_near", "heat_far", "no_heat"}

Drift(st, kind, payload) ==
    CASE kind = "hold_flipped" -> [st EXCEPT !.hold = 1 - @]
      [] kind = "mode_changed" -> [st EXCEPT !.tmode = IF @ = OFF THEN HEAT ELSE OFF]
      [] kind = "heat_near" /\ payload.t_heat # Absent -> [st EXCEPT !.t_heat = payload.t_heat + 5]
      [] kind = "heat_far" /\ payload.t_heat # Absent -> [st EXCEPT !.t_heat = payload.t_heat + 15]
      [] OTHER -> st

\* LocalCommandExecutor._get_tstat_readback: {} on any failure
get_tstat_readback(st, kind) ==
    IF kind = "fail" THEN [ok |-> FALSE, tmode |-> Null, hold |-> Null, t_heat |-> Null]   \* {}
    ELSE [ok |-> TRUE, tmode |-> st.tmode, hold |-> st.hold,
          t_heat |-> IF kind = "no_heat" THEN Null ELSE st.t_heat]

\* a verification that accepts any read-back it can obtain
verify_set_state_lenient(current, expected) == IF current.ok THEN "true" ELSE "false"

\* LocalCommandExecutor._verify_set_state: "true", "false", or "raise" when the
\* subtraction meets a missing t_heat
verify_set_state(current, expected) ==
    IF ~current.ok THEN "false"
    ELSE IF expected.tmode = OFF
    THEN IF current.tmode = OFF /\ current.hold = expected.hold THEN "true" ELSE "false"
    ELSE IF current.tmode # HEAT \/ current.hold # expected.hold THEN "false"
    ELSE IF current.t_heat = Null THEN "raise"
    ELSE IF FloatLT(Abs(current.t_heat - expected.t_heat), ReadbackTolerance)
    THEN "true" ELSE "false"

\* a validation that looks at hold before tmode and rejects a setpoint sent with OFF
set_state_validation_reordered(params) ==
    IF PyGet(params.hold) \notin {0, 1} THEN "Invalid or missing hold (expected 0 or 1)"
    ELSE IF PyGet(params.tmode) \notin {OFF, HEAT} THEN "Invalid or missing tmode (expected 0 or 1)"
    ELSE IF PyGet(params.tmode) = HEAT /\ PyGet(params.t_heat) = Null THEN "Missing t_heat for HEAT mode"
    ELSE IF PyGet(params.tmode) = OFF /\ params.t_heat # Absent THEN "t_heat must be omitted when tmode == 0"
    ELSE ""

\* the validation of _execute_set_state, in the order of the code; "" when it passes
set_state_validation(params) ==
    LET tmode == PyGet(params.tmode)
        hold == PyGet(params.hold)
        stripped == tmode = OFF /\ params.t_heat # Absent
        t_heat == IF stripped THEN Null ELSE PyGet(params.t_heat)
        has_heat == IF stripped THEN FALSE ELSE params.t_heat # Absent
    IN  IF tmode \notin {OFF, HEAT} THEN "Invalid or missing tmode (expected 0 or 1)"
        ELSE IF hold \notin {0, 1} THEN "Invalid or missing hold (expected 0 or 1)"
        ELSE IF tmode = HEAT /\ t_heat = Null THEN "Missing t_heat for HEAT mode"
        ELSE IF tmode = OFF /\ has_heat THEN "t_heat must be omitted when tmode == 0"
        ELSE ""

\* the payload do_one builds from validated params; float(t_heat) may raise
set_state_payload(params) ==
    [NoPayload EXCEPT !.tmode = params.tmode, !.hold = params.hold,
                      !.t_heat = IF params.tmode = HEAT THEN PyFloat(params.t_heat).val ELSE Absent]

Result(success, error, raised) == [success |-> success, error |-> error, raised |-> raised]

NoReadback == [ok |-> FALSE, tmode |-> Null, hold |-> Null, t_heat |-> Null]

Unchanged(res) ==
    [result |-> res, sent |-> <<>>, gets |-> 0, readback |-> NoReadback, store_writes |-> 0,
     tstat |-> tstat, deviceConfig |-> deviceConfig, thermostats |-> thermostats]

\* LocalCommandExecutor._execute_set_state with its do_one, for the one target
execute_set_state(tid, params, env) ==
    LET invalid == set_state_validation(params)
        payload == set_state_payload(params)
        applied == DeviceApply(tstat[tid], payload)
        seen == Drift(applied, env.drift, payload)
        verdict == verify_set_state(get_tstat_readback(seen, env.drift), payload)
        entry == <<PostEntry(tid, "set_state", payload, env.post)>>
    IN  IF invalid # "" THEN Unchanged(Result(FALSE, invalid, FALSE))
        ELSE IF ~resolve_thermostat_ip(tid, env.lookupOk)
        THEN Unchanged(Result(FALSE, "IP not found", FALSE))
        ELSE IF params.tmode = HEAT /\ ~PyFloat(params.t_heat).ok
        THEN Unchanged(Result(FALSE, "could not convert string to float", TRUE))
        ELSE IF env.post # "ok"
        THEN [Unchanged(Result(FALSE, "Device " \o env.post, FALSE)) EXCEPT !.sent = entry]
        ELSE [result |-> CASE verdict = "true" -> Result(TRUE, "", FALSE)
                           [] verdict = "false" -> Result(FALSE, "Verification failed", FALSE)
                           [] OTHER -> Result(FALSE, "unsupported operand type(s) for -", TRUE),
              sent |-> entry, gets |-> 1, readback |-> get_tstat_readback(seen, env.drift),
              store_writes |-> 0,
              tstat |-> [tstat EXCEPT ![tid] = seen],
              deviceConfig |-> IF verdict = "true" /\ env.dbOk
                               THEN [deviceConfig EXCEPT ![tid] = save_config_to_database(@, payload)]
                               ELSE deviceConfig,
              thermostats |-> thermostats]

\* DatabaseManager.update_thermostat_away_temp: UPDATE ... WHERE active = true
update_thermostat_away_temp(tid, value, dbOk) ==
    IF dbOk /\ tid \in Devices /\ thermostats[tid].present /\ thermostats[tid].active
    THEN [thermostats EXCEPT ![tid].away_temp = value]
    ELSE thermostats

\* the validation of _execute_set_away_temp; "" when it passes
away_temp_validation(params) ==
    LET away_temp == PyGet(params.away_temp)
        temp_value == PyFloat(away_temp)
    IN  IF away_temp = Null THEN "Missing away_temp parameter"
        ELSE IF ~temp_value.ok THEN "away_temp must be a valid number"
        ELSE IF FloatLT(temp_value.val, AwayTempMin) \/ FloatLT(AwayTempMax, temp_value.val)
        THEN "away_temp must be between 41.0 and 76.0 degrees Fahrenheit"
        ELSE ""

\* LocalCommandExecutor._execute_set_away_temp
execute_set_away_temp(tid, params, env) ==
    LET invalid == away_temp_validation(params)
        updated == update_thermostat_away_temp(tid, params.away_temp, env.dbOk)
        success == env.dbOk /\ tid \in Devices /\ thermostats[tid].present /\ thermostats[tid].active
    IN  IF invalid # "" THEN Unchanged(Result(FALSE, invalid, FALSE))
        ELSE [Unchanged(IF success THEN Result(TRUE, "", FALSE)
                        ELSE Result(FALSE, "Failed to update database for thermostat", FALSE))
              EXCEPT !.store_writes = 1, !.thermostats = updated]

\* LocalCommandExecutor.execute_command
execute_command(cmd, env) ==
    IF cmd.command = "set_state" THEN execute_set_state(cmd.thermostat_id, cmd.params, env)
    ELSE IF cmd.command = "set_away_temp" THEN execute_set_away_temp(cmd.thermostat_id, cmd.params, env)
    ELSE Unchanged(Result(FALSE, "Unsupported command", FALSE))

TmodeInputs == {Absent, OFF, HEAT, COOL}
HoldInputs == {Absent, 0, 1, 2}
HeatInputs == {Absent, Null, NonNumeric, Deg(50), Deg(70)}
AwayInputs == {Absent, Null, NonNumeric, NaN, Deg(41) - 1, Deg(41), Deg(60), Deg(76), Deg(76) + 1, Deg(90)}

SetStateParams == [tmode : TmodeInputs, hold : HoldInputs, t_heat : HeatInputs, away_temp : {Absent}]
AwayTempParams == [tmode : {Absent}, hold : {Absent}, t_heat : {Absent}, away_temp : AwayInputs]

ExecutorCommands ==
    [cmd_id : {0}, command : {"set_state"}, thermostat_id : {"d1", "dX"}, params : SetStateParams]
    \cup [cmd_id : {0}, command : {"set_away_temp"}, thermostat_id : ThermostatIds, params : AwayTempParams]
    \cup [cmd_id : {0}, command : {"reboot"}, thermostat_id : {"d1"}, params : {NoParams}]

Envs == [lookupOk : BOOLEAN, post : HttpOutcomes, drift : Drifts, dbOk : BOOLEAN]

NoCmd == [n |-> 0, op |-> "none",
          cmd |-> [cmd_id |-> 0, command |-> "none", thermostat_id |-> "dX", params |-> NoParams],
          result |-> Result(FALSE, "", FALSE), gets |-> 0, readback |-> NoReadback,
          store_writes |-> 0]

\* one call of LocalCommandExecutor.execute_command
RunCommand(cmd, env) ==
    LET out == execute_command(cmd, env)
    IN  /\ lastCmd.op = "none"
        /\ tstat' = out.tstat
        /\ deviceConfig' = out.deviceConfig
        /\ thermostats' = out.thermostats
        /\ posts' = out.sent
        /\ lastCmd' = [n |-> 1 - lastCmd.n, op |-> "remote", cmd |-> cmd, result |-> out.result,
                       gets |-> out.gets, readback |-> out.readback,
                       store_writes |-> out.store_writes]
        /\ UNCHANGED <<cfgVars, syncVars, minVars, discVars, lateVars>>

(***************************************************************************)
(* The local REST routes of api/thermostat_routes.py that write to devices *)
(***************************************************************************)
AUTO == 3

\* api/thermostat_routes.py _update_config_tracking
update_config_tracking(row, command) ==
    [row EXCEPT !.tmode_set = IF command.tmode # Absent THEN command.tmode ELSE @,
                !.t_heat_set = IF command.t_heat # Absent THEN command.t_heat ELSE @,
                !.hold_set = IF command.hold # Absent THEN command.hold ELSE @]

ApiOutcomes == HttpOutcomes \cup {"refused"}

\* api/thermostat_routes.py _execute_thermostat_command
ExecuteThermostatCommand(tid, command, outcome, dbOk) ==
    LET found == dbOk /\ tid \in Devices /\ thermostats[tid].present
        accepted == found /\ outcome = "ok"
    IN  /\ lastCmd.op = "none"
        /\ posts' = IF found THEN <<PostEntry(tid, "api", command, outcome)>> ELSE <<>>
        /\ tstat' = IF accepted THEN [tstat EXCEPT ![tid] = DeviceApply(@, command)] ELSE tstat
        /\ deviceConfig' = IF accepted
                           THEN [deviceConfig EXCEPT ![tid] = update_config_tracking(@, command)]
                           ELSE deviceConfig
        /\ lastCmd' = [n |-> 1 - lastCmd.n, op |-> "api",
                       cmd |-> [cmd_id |-> 0, command |-> "api", thermostat_id |-> tid,
                                params |-> [NoParams EXCEPT !.tmode = command.tmode,
                                                            !.hold = command.hold,
                                                            !.t_heat = command.t_heat]],
                       result |-> Result(accepted, IF accepted THEN "" ELSE "failed", FALSE),
                       gets |-> 0, readback |-> NoReadback, store_writes |-> 0]
        /\ UNCHANGED <<thermostats, cfgVars, syncVars, minVars, discVars, lateVars>>

\* route POST /thermostats/{id}/mode
set_thermostat_mode_command(tmode) == [NoPayload EXCEPT !.tmode = tmode]

\* route POST /thermostats/{id}/temperature
set_thermostat_temperature_command(t_heat, hold) ==
    [NoPayload EXCEPT !.tmode = HEAT, !.t_heat = t_heat, !.hold = IF hold THEN 1 ELSE 0]

\* ModeRequest validates only that tmode is an integer
ApiSetMode(tid, tmode, outcome, dbOk) ==
    /\ tmode \in Int
    /\ ExecuteThermostatCommand(tid, set_thermostat_mode_command(tmode), outcome, dbOk)

ApiSetTemperature(tid, t_heat, hold, outcome, dbOk) ==
    /\ hold \in BOOLEAN
    /\ ExecuteThermostatCommand(tid, set_thermostat_temperature_command(t_heat, hold), outcome, dbOk)

(***************************************************************************)
(* SyncEngine: command polling, dispatch and the acknowledgment queue of   *)
(* EnhancedPublicServerSync (public_sync/sync_manager.py).  The polling    *)
(* loop and the acknowledgment loop are two tasks of one event loop: each  *)
(* runs until its next await, so a results POST in flight is a state.      *)
(***************************************************************************)
MaxCommands == 2
MaxPoll == 2
AckQueueLimit == 100
AckQueueKeep == 50

CmdIds == 1..MaxCommands

\* EnhancedPublicServerSync._queue_ack / _queue_discovery_ack: the record appended
Ack(cmd_id, success, error) == [cmd_id |-> cmd_id, success |-> success, has_error |-> error # ""]

DiscoveryOutcomes == {"no_handler", "completed", "failed", "raised"}

\* EnhancedPublicServerSync._execute_discovery_command: the acknowledgments it queues
execute_discovery_command_acks(cmd, disc) ==
    CASE disc = "no_handler" -> <<Ack(cmd.cmd_id, FALSE, "Discovery handler not available")>>
      [] disc = "completed" -> <<Ack(cmd.cmd_id, TRUE, "")>>
      [] disc = "failed" -> <<Ack(cmd.cmd_id, FALSE, "discovery failed")>>
      [] OTHER -> <<Ack(cmd.cmd_id, FALSE, "discovery raised")>>

\* a dispatcher that drops unsupported commands and acknowledges a raise twice
execute_command_acks_uneven(cmd, result, disc, hasExecutor) ==
    IF cmd.command \notin {"set_state", "set_away_temp", "discover_devices"} THEN <<>>
    ELSE IF result.raised
    THEN <<Ack(cmd.cmd_id, FALSE, result.error), Ack(cmd.cmd_id, FALSE, result.error)>>
    ELSE <<Ack(cmd.cmd_id, result.success, result.error)>>

\* EnhancedPublicServerSync._execute_command: the acknowledgments queued for one
\* command, given what the executor returned or raised
execute_command_acks(cmd, result, disc, hasExecutor) ==
    IF cmd.command = "discover_devices" THEN execute_discovery_command_acks(cmd, disc)
    ELSE IF cmd.command \notin {"set_state", "set_away_temp"}
    THEN <<Ack(cmd.cmd_id, FALSE, "Unsupported command type")>>
    ELSE IF ~hasExecutor THEN <<Ack(cmd.cmd_id, FALSE, "Command executor not available")>>
    ELSE <<Ack(cmd.cmd_id, result.success, result.error)>>

SyncCommands ==
    [cmd_id : CmdIds, command : {"set_state"}, thermostat_id : {"d1", "dX"},
     params : {[NoParams EXCEPT !.tmode = OFF, !.hold = 1],
               [NoParams EXCEPT !.tmode = COOL, !.hold = 0],
               [NoParams EXCEPT !.tmode = HEAT, !.hold = 1, !.t_heat = NonNumeric]}]
    \cup [cmd_id : CmdIds, command : {"set_away_temp"}, thermostat_id : {"d1", "dX"},
          params : {[NoParams EXCEPT !.away_temp = Deg(60)], [NoParams EXCEPT !.away_temp = Deg(90)]}]
    \cup [cmd_id : CmdIds, command : {"discover_devices", "reboot"}, thermostat_id : {"dX"},
          params : {NoParams}]

SyncEnvs == [lookupOk : {TRUE}, post : {"ok", "exception"}, drift : {"same", "fail"}, dbOk : {TRUE}]

\* _poll_and_execute_commands: the poll returns k commands with fresh ids
\* (k = 0: 404, an empty list, a failed poll)
Poll(k) ==
    /\ pending = <<>>
    /\ issued + k <= MaxCommands
    /\ pending' = [i \in 1..k |-> issued + i]
    /\ issued' = issued + k
    /\ UNCHANGED <<command_acks, ackSend, ackCount, delivered, dropped>>
    /\ UNCHANGED <<devVars, cfgVars, minVars, discVars, lateVars>>

\* _execute_command for the next command of the poll; the content of the
\* command is the remote service's choice
ExecuteCommand(cmd, env, disc, hasExecutor) ==
    /\ pending # <<>>
    /\ cmd.cmd_id = Head(pending)
    /\ LET out == IF hasExecutor /\ cmd.command \in {"set_state", "set_away_temp"}
                  THEN execute_command(cmd, env)
                  ELSE Unchanged(Result(FALSE, "", FALSE))
           acks == execute_command_acks(cmd, out.result, disc, hasExecutor)
       IN  /\ command_acks' = command_acks \o acks
           /\ ackCount' = [c \in CmdIds |->
                             ackCount[c] + Cardinality({i \in 1..Len(acks) : acks[i].cmd_id = c})]
           /\ tstat' = out.tstat
           /\ deviceConfig' = out.deviceConfig
           /\ thermostats' = out.thermostats
           /\ posts' = out.sent
    /\ pending' = Tail(pending)
    /\ UNCHANGED <<lastCmd, ackSend, issued, delivered, dropped>>
    /\ UNCHANGED <<cfgVars, minVars, discVars, lateVars>>

AckIds(q) == {q[i].cmd_id : i \in 1..Len(q)}

\* _command_ack_service / _send_command_acks up to the await of the POST
AckSendBegin ==
    /\ ackSend.pc = "idle"
    /\ command_acks # <<>>
    /\ ackSend' = [pc |-> "sending", batch |-> command_acks]
    /\ UNCHANGED <<command_acks, pending, issued, ackCount, delivered, dropped>>
    /\ UNCHANGED <<devVars, cfgVars, minVars, discVars, lateVars>>

\* _send_command_acks after the POST: the queue as the code leaves it
\* a truncation that starts at the limit itself
acks_after_send_at_limit(queue, success) ==
    IF success THEN <<>>
    ELSE IF Len(queue) >= AckQueueLimit
    THEN SubSeq(queue, Len(queue) - AckQueueKeep + 1, Len(queue))
    ELSE queue

\* _send_command_acks: the queue after the POST returned
acks_after_send(queue, success) ==
    IF success THEN <<>>
    ELSE IF Len(queue) > AckQueueLimit
    THEN SubSeq(queue, Len(queue) - AckQueueKeep + 1, Len(queue))
    ELSE queue

AckSendEnd(success) ==
    /\ ackSend.pc = "sending"
    /\ command_acks' = acks_after_send(command_acks, success)
    /\ delivered' = IF success THEN delivered \cup AckIds(ackSend.batch) ELSE delivered
    /\ dropped' = IF success THEN dropped
                  ELSE dropped \cup (AckIds(command_acks) \ AckIds(acks_after_send(command_acks, success)))
    /\ ackSend' = [pc |-> "idle", batch |-> <<>>]
    /\ UNCHANGED <<pending, issued, ackCount>>
    /\ UNCHANGED <<devVars, cfgVars, minVars, discVars, lateVars>>

(***************************************************************************)
(* Minute path: ThermostatServer._rollup_service writes MinuteAggregate    *)
(* rows, UploadServices._upload_minute_data uploads the rows newer than    *)
(* the minute_upload checkpoint.  Time is counted in ticks.                *)
(***************************************************************************)
TicksPerMinute == 2
MaxClock == 8
MaxBatchSize == 2
MaxBatches == 3

OneHour == 60 * TicksPerMinute

\* datetime.replace(second=0, microsecond=0)
FloorMinute(t) == t - (t % TicksPerMinute)

DevIndex(d) == IF d = "d1" THEN 1 ELSE 2

RowLE(a, b) ==
    \/ DevIndex(a.thermostat_id) < DevIndex(b.thermostat_id)
    \/ a.thermostat_id = b.thermostat_id /\ a.minute_ts <= b.minute_ts

RECURSIVE SortRows(_)
\* ORDER BY thermostat_id, minute_ts
SortRows(S) ==
    IF S = {} THEN <<>>
    ELSE LET first == CHOOSE r \in S : \A q \in S : RowLE(r, q)
         IN  <<first>> \o SortRows(S \ {first})

\* DatabaseManager.get_minute_readings_since: [] when the query fails
get_minute_readings_since(since, queryOk) ==
    IF queryOk THEN SortRows({r \in minute_readings : r.minute_ts > since}) ELSE <<>>

\* range(0, len(upload_records), max_batch)
NumBatches(rows) == (Len(rows) + MaxBatchSize - 1) \div MaxBatchSize

Batch(rows, i) ==
    SubSeq(rows, (i - 1) * MaxBatchSize + 1,
           IF i * MaxBatchSize < Len(rows) THEN i * MaxBatchSize ELSE Len(rows))

SeqSet(q) == {q[i] : i \in 1..Len(q)}

MaxTs(rows) == CHOOSE t \in {r.minute_ts : r \in SeqSet(rows)} :
                   \A r \in SeqSet(rows) : r.minute_ts <= t

\* DatabaseManager.get_sync_checkpoint: None when the row is missing or the read fails
get_sync_checkpoint(readOk) == IF readOk THEN checkpoint ELSE Null

\* DatabaseManager.update_sync_checkpoint: a failed write is logged and dropped
update_sync_checkpoint(ts, writeOk) == IF writeOk THEN ts ELSE checkpoint

\* EnhancedPublicServerSync._initialize_checkpoints, for minute_upload
initialize_checkpoints(readOk, writeOk) ==
    IF get_sync_checkpoint(readOk) = Null THEN update_sync_checkpoint(clock, writeOk)
    ELSE checkpoint

NoRun == [n |-> 0, before |-> Null, read |-> Null, rows |-> <<>>, batches |-> 0,
          failed_at |-> 0, after |-> Null]

\* EnhancedPublicServerSync._initialize_checkpoints, for status_upload
initialize_status_checkpoint(readOk, writeOk) ==
    IF ~readOk \/ status_checkpoint = Null
    THEN (IF writeOk THEN clock ELSE status_checkpoint)
    ELSE status_checkpoint

\* EnhancedPublicServerSync.start: it creates the UploadServices, whose
\* last_immediate_upload is the time of creation, then initialises the checkpoints
SyncStart(readOk, writeOk, statusReadOk, statusWriteOk) ==
    /\ ~syncStarted
    /\ syncStarted' = TRUE
    /\ checkpoint' = initialize_checkpoints(readOk, writeOk)
    /\ status_checkpoint' = initialize_status_checkpoint(statusReadOk, statusWriteOk)
    /\ lastStatusWrite' =
           IF (~statusReadOk \/ status_checkpoint = Null) /\ statusWriteOk
           THEN [by |-> "initialize", existed |-> status_checkpoint # Null, upload |-> "none"]
           ELSE lastStatusWrite
    /\ last_immediate_upload' = clock
    /\ flushHist' = [flushHist EXCEPT !.constructed = clock]
    /\ UNCHANGED <<clock, rollupNow, minute_readings, acceptedRows, minRun, pollStart>>
    /\ UNCHANGED <<upload_queue, batch_buffer, procRun, last_batch_time, statusSvc,
                   lastTick, lastFallback>>
    /\ UNCHANGED <<devVars, cfgVars, syncVars, discVars, fnVars, regVars, detVars, pollVars, tailVars>>

\* ThermostatServer.start creates the polling and rollup tasks after discovery;
\* the rollup loop reads the time at the top of its first iteration
TasksStart ==
    /\ syncStarted
    /\ pollStart = Null
    /\ pollStart' = clock
    /\ rollupNow' = clock
    /\ UNCHANGED <<clock, minute_readings, checkpoint, acceptedRows, minRun, syncStarted>>
    /\ UNCHANGED <<devVars, cfgVars, syncVars, discVars, lateVars>>

Tick ==
    /\ clock < MaxClock
    /\ clock' = clock + 1
    /\ UNCHANGED <<rollupNow, minute_readings, checkpoint, acceptedRows, minRun, syncStarted, pollStart>>
    /\ UNCHANGED <<devVars, cfgVars, syncVars, discVars, lateVars>>

\* one iteration of _rollup_service: it wakes at the minute boundary after the
\* time it read, and aggregates the minute before the minute of that time;
\* create_minute_aggregation inserts one row per device with raw readings
Rollup(devs) ==
    /\ rollupNow # Null
    /\ clock >= FloorMinute(rollupNow) + TicksPerMinute
    /\ LET end_time == FloorMinute(rollupNow)
           start_time == end_time - TicksPerMinute
           existing == {r.thermostat_id : r \in {q \in minute_readings : q.minute_ts = start_time}}
       IN  /\ (end_time <= pollStart => devs = {})
           /\ minute_readings' = minute_readings \cup
                 {[thermostat_id |-> d, minute_ts |-> start_time] : d \in devs \ existing}
    /\ rollupNow' = clock
    /\ UNCHANGED <<clock, checkpoint, acceptedRows, minRun, syncStarted, pollStart>>
    /\ UNCHANGED <<devVars, cfgVars, syncVars, discVars, lateVars>>

\* the checkpoint _upload_minute_data leaves, given the batch that failed
\* (0: every batch was accepted)
minute_checkpoint_after(rows, failed_at, writeOk) ==
    IF rows = <<>> \/ failed_at # 0 THEN checkpoint
    ELSE update_sync_checkpoint(MaxTs(rows), writeOk)

\* one run of UploadServices._upload_minute_data
UploadMinute(readOk, queryOk, failed_at, writeOk) ==
    /\ syncStarted
    /\ LET read == get_sync_checkpoint(readOk)
           start_time == IF read = Null THEN clock - OneHour ELSE read
           rows == get_minute_readings_since(start_time, queryOk)
           sentOk == IF failed_at = 0 THEN NumBatches(rows) ELSE failed_at - 1
       IN  /\ failed_at \in 0..NumBatches(rows)
           /\ acceptedRows' = acceptedRows \cup
                 UNION {SeqSet(Batch(rows, i)) : i \in 1..sentOk}
           /\ checkpoint' = minute_checkpoint_after(rows, failed_at, writeOk)
           /\ minRun' = [n |-> 1 - minRun.n, before |-> checkpoint, read |-> read, rows |-> rows,
                         batches |-> NumBatches(rows), failed_at |-> failed_at,
                         after |-> minute_checkpoint_after(rows, failed_at, writeOk)]
    /\ UNCHANGED <<clock, rollupNow, minute_readings, syncStarted, pollStart>>
    /\ UNCHANGED <<devVars, cfgVars, syncVars, discVars, lateVars>>

(***************************************************************************)
(* DiscoveryCommandHandler: one handler object, entered by concurrent      *)
(* callers; a step of a run is the code between two awaits.                *)
(***************************************************************************)
DiscCmds == {"c1", "c2"}
AllPhases == <<"database", "udp_discovery", "tcp_discovery">>
ValidPhases == {AllPhases[i] : i \in 1..3}

\* params['phases_to_run']: missing, a non-list value, or a list of names
PhasesInputs ==
    {[kind |-> "missing", phases |-> {}], [kind |-> "string", phases |-> {}]}
    \cup {[kind |-> "list", phases |-> S] :
             S \in {{}, {"database"}, {"udp_discovery", "tcp_discovery"}, {"database", "bogus"}}}

\* a validation that does not look at the names in the list
validate_command_any_name(p) ==
    IF p.kind = "missing" \/ (p.kind = "list" /\ p.phases = {}) THEN "MISSING_PHASES_TO_RUN"
    ELSE IF p.kind # "list" THEN "INVALID_PHASES_TO_RUN"
    ELSE ""

\* DiscoveryCommandHandler._validate_command: the error code, "" when valid
validate_command(p) ==
    IF p.kind = "missing" \/ (p.kind = "list" /\ p.phases = {}) THEN "MISSING_PHASES_TO_RUN"
    ELSE IF p.kind # "list" THEN "INVALID_PHASES_TO_RUN"
    ELSE IF \E ph \in p.phases : ph \notin ValidPhases THEN "INVALID_PHASE"
    ELSE ""

\* DiscoveryCommandHandler._initialize_phase_history
initialize_phase_history(phases_to_run) ==
    [ph \in ValidPhases |-> IF ph \in phases_to_run THEN "waiting" ELSE "skipped"]

NoHistory == [ph \in ValidPhases |-> "none"]

NoPhasesInput == [kind |-> "none", phases |-> {}]
\* step: the updates the running phase method has made since its start
IdleRun ==
    [pc |-> "idle", params |-> NoPhasesInput, phases_to_run |-> {}, current |-> "", ran |-> {},
     step |-> 0]
NoDiscovery == ""
NoResult == [status |-> "none", code |-> "", current_discovery_id |-> NoDiscovery]

\* the phase _execute_discovery_phases enters next: 0 when none is left
NextPhase(run) ==
    IF \E i \in 1..3 : AllPhases[i] \in run.phases_to_run \ run.ran
    THEN CHOOSE i \in 1..3 :
             /\ AllPhases[i] \in run.phases_to_run \ run.ran
             /\ \A j \in 1..(i - 1) : AllPhases[j] \notin run.phases_to_run \ run.ran
    ELSE 0

MaxCheckpoints == 2

\* self.last_progress before the first report, and a final report not sent
NoReport == [cmd |-> "", status |-> "none", phase_history |-> NoHistory, action_step |-> 0]

\* action_step: the current_action and ips_scanned last written to an entry of
\* the phase history, as a step number; unreported: the phase updates since
\* the last report; history_of: the command whose phases phase_history holds
NewProgress ==
    [action_step |-> 0, unreported |-> 0, history_of |-> "", last_progress |-> NoReport,
     final |-> [c \in DiscCmds |-> [report |-> NoReport, describes |-> ""]]]

\* a handler that reports only when the status of some phase changed
update_progress_on_status_change(prog, command_id, status, history) ==
    IF history = prog.last_progress.phase_history /\ status = prog.last_progress.status
    THEN prog
    ELSE [prog EXCEPT !.unreported = 0,
                      !.last_progress = [cmd |-> command_id, status |-> status,
                                         phase_history |-> history,
                                         action_step |-> prog.action_step]]

\* DiscoveryCommandHandler._update_progress: the report holds a copy of the
\* whole phase history, is kept as last_progress and handed to the callbacks
update_progress(prog, command_id, status, history) ==
    [prog EXCEPT !.unreported = 0,
                 !.last_progress = [cmd |-> command_id, status |-> status,
                                    phase_history |-> history,
                                    action_step |-> prog.action_step]]

\* a handler that clears the marker on the success path only
marker_after_return_completed_only(status, marker) ==
    IF status = "completed" THEN NoDiscovery ELSE marker

\* the finally clause of execute_discovery_command: self.active_discovery = None
marker_after_return(status, marker) == NoDiscovery

\* execute_discovery_command up to its first await: the two early returns, or
\* the marker, _initialize_phase_history and the ACCEPTED report
DiscInvoke(c, p) ==
    /\ discRun[c].pc = "idle"
    /\ IF validate_command(p) # ""
       THEN /\ discResult' = [discResult EXCEPT ![c] =
                   [status |-> "failed", code |-> validate_command(p), current_discovery_id |-> NoDiscovery]]
            /\ discRun' = [discRun EXCEPT ![c].pc = "done", ![c].params = p]
            /\ UNCHANGED <<active_discovery, phase_history, progress>>
       ELSE IF active_discovery # NoDiscovery
       THEN /\ discResult' = [discResult EXCEPT ![c] =
                   [status |-> "failed", code |-> "DISCOVERY_IN_PROGRESS",
                    current_discovery_id |-> active_discovery]]
            /\ discRun' = [discRun EXCEPT ![c].pc = "done", ![c].params = p]
            /\ UNCHANGED <<active_discovery, phase_history, progress>>
       ELSE /\ active_discovery' = c
            /\ phase_history' = initialize_phase_history(p.phases)
            /\ progress' = update_progress([progress EXCEPT !.action_step = 0, !.history_of = c],
                                           c, "accepted", phase_history')
            /\ discRun' = [discRun EXCEPT ![c] =
                   [pc |-> "running", params |-> p, phases_to_run |-> p.phases,
                    current |-> "", ran |-> {}, step |-> 0]]
            /\ UNCHANGED discResult
    /\ UNCHANGED <<devVars, cfgVars, syncVars, minVars, lateVars>>

\* a phase method from its start to its first await: the phase goes
\* inprogress and the report is made
DiscPhaseStart(c) ==
    /\ discRun[c].pc = "running"
    /\ discRun[c].current = ""
    /\ NextPhase(discRun[c]) # 0
    /\ LET ph == AllPhases[NextPhase(discRun[c])]
       IN  /\ phase_history' = [phase_history EXCEPT ![ph] = "inprogress"]
           /\ discRun' = [discRun EXCEPT ![c].current = ph, ![c].step = 0]
    /\ progress' = update_progress([progress EXCEPT !.action_step = 0, !.unreported = @ + 1],
                                   c, "in_progress", phase_history')
    /\ UNCHANGED <<active_discovery, discResult>>
    /\ UNCHANGED <<devVars, cfgVars, syncVars, minVars, lateVars>>

\* an update inside a phase: the second update of _execute_udp_phase after its
\* sleep, and tcp_progress_callback at a checkpoint of the scan; the phase
\* stays inprogress, its current_action or ips_scanned changes, and the
\* report is made
DiscPhaseUpdate(c) ==
    /\ discRun[c].pc = "running"
    /\ \/ discRun[c].current = "udp_discovery" /\ discRun[c].step < 1
       \/ discRun[c].current = "tcp_discovery" /\ discRun[c].step < MaxCheckpoints
    /\ phase_history' = [phase_history EXCEPT ![discRun[c].current] = "inprogress"]
    /\ discRun' = [discRun EXCEPT ![c].step = @ + 1]
    /\ progress' = update_progress([progress EXCEPT !.action_step = discRun[c].step + 1,
                                                    !.unreported = @ + 1],
                                   c, "in_progress", phase_history')
    /\ UNCHANGED <<active_discovery, discResult>>
    /\ UNCHANGED <<devVars, cfgVars, syncVars, minVars, lateVars>>

\* the rest of a phase method: the phase completes and the report is made, or
\* the discovery call raises, _execute_discovery_phases returns FAILED without
\* a report and the finally clause runs
DiscPhaseEnd(c, ok) ==
    /\ discRun[c].pc = "running"
    /\ discRun[c].current # ""
    /\ discRun[c].current = "udp_discovery" => discRun[c].step = 1
    /\ IF ok
       THEN /\ phase_history' = [phase_history EXCEPT ![discRun[c].current] = "completed"]
            /\ discRun' = [discRun EXCEPT ![c].current = "", ![c].ran = @ \cup {discRun[c].current}]
            /\ progress' = update_progress([progress EXCEPT !.unreported = @ + 1],
                                           c, "in_progress", phase_history')
            /\ UNCHANGED <<active_discovery, discResult>>
       ELSE /\ discRun' = [discRun EXCEPT ![c].pc = "done", ![c].current = ""]
            /\ discResult' = [discResult EXCEPT ![c] =
                   [status |-> "failed", code |-> "DISCOVERY_EXECUTION_ERROR",
                    current_discovery_id |-> NoDiscovery]]
            /\ active_discovery' = marker_after_return("failed", active_discovery)
            /\ UNCHANGED <<phase_history, progress>>
    /\ UNCHANGED <<devVars, cfgVars, syncVars, minVars, lateVars>>

\* the end of _execute_discovery_phases, with its COMPLETED report, and the
\* finally clause of execute_discovery_command
DiscFinish(c) ==
    /\ discRun[c].pc = "running"
    /\ discRun[c].current = ""
    /\ NextPhase(discRun[c]) = 0
    /\ discRun' = [discRun EXCEPT ![c].pc = "done"]
    /\ discResult' = [discResult EXCEPT ![c] =
           [status |-> "completed", code |-> "", current_discovery_id |-> NoDiscovery]]
    /\ progress' = update_progress(progress, c, "completed", phase_history)
    /\ active_discovery' = marker_after_return("completed", active_discovery)
    /\ UNCHANGED phase_history
    /\ UNCHANGED <<devVars, cfgVars, syncVars, minVars, lateVars>>

\* DiscoveryCommandHandler.cancel_discovery, when it returns True
DiscCancel(c) ==
    /\ active_discovery = c
    /\ phase_history' = [ph \in ValidPhases |->
           IF phase_history[ph] = "waiting" THEN "skipped" ELSE phase_history[ph]]
    /\ progress' = update_progress(progress, c, "cancelled", phase_history')
    /\ active_discovery' = NoDiscovery
    /\ UNCHANGED <<discRun, discResult>>
    /\ UNCHANGED <<devVars, cfgVars, syncVars, minVars, lateVars>>

\* EnhancedPublicServerSync._send_final_discovery_progress, called with the
\* result of every command: the status of the result with the phase history
\* of the handler's last_progress, an empty list when there is none
DiscFinalProgress(c) ==
    /\ discRun[c].pc = "done"
    /\ progress.final[c].report = NoReport
    /\ progress' = [progress EXCEPT !.final[c] =
           [report |-> [cmd |-> c, status |-> discResult[c].status,
                        phase_history |-> progress.last_progress.phase_history,
                        action_step |-> progress.last_progress.action_step],
            describes |-> IF progress.last_progress = NoReport THEN "" ELSE progress.history_of]]
    /\ UNCHANGED <<active_discovery, phase_history, discRun, discResult>>
    /\ UNCHANGED <<devVars, cfgVars, syncVars, minVars, lateVars>>

(***************************************************************************)
(* The seasonal rule and the command builder, applied to every input       *)
(***************************************************************************)
DaysIn(m) == IF m = 2 THEN 29 ELSE IF m \in {4, 6, 9, 11} THEN 30 ELSE 31

\* every value date.today() can have, as <<month, day>>
AllDates == {md \in (1..12) \X (1..31) : md[2] <= DaysIn(md[1])}

NoSeasonal == [season |-> "none", config |-> NoPayload]

\* _apply_seasonal_safety_config / _apply_seasonal_fallback_config: the call
\* of _determine_seasonal_config on the current date
DetermineSeasonal ==
    /\ seasonal_result = NoSeasonal
    /\ seasonal_result' = determine_seasonal_config(date_today)
    /\ UNCHANGED <<date_today, safe_config, safe_command>>
    /\ UNCHANGED exceptFn

(***************************************************************************)
(* Registration: ThermostatServer._register_and_configure_devices, by two  *)
(* tasks (a discovery phase and a periodic discovery can overlap), each    *)
(* processing one device at a time                                         *)
(***************************************************************************)
MaxRegistrations == 3

RegTasks == {"t1", "t2"}

DefaultAwayTemp == Deg(50)

IdleReg == [pc |-> "idle", dev |-> "d1", away_temp |-> DefaultAwayTemp]

\* the upsert without the COALESCE: the stored away_temp is overwritten
upsert_thermostat_overwrite(d, away_temp, dbOk) ==
    IF ~dbOk THEN [ok |-> FALSE, thermostats |-> thermostats, inserted |-> inserted]
    ELSE IF thermostats[d].present
    THEN [ok |-> TRUE, inserted |-> inserted,
          thermostats |-> [thermostats EXCEPT ![d].active = TRUE, ![d].away_temp = away_temp]]
    ELSE [ok |-> TRUE, inserted |-> [inserted EXCEPT ![d] = @ + 1],
          thermostats |-> [thermostats EXCEPT ![d] =
                              [present |-> TRUE, active |-> TRUE, away_temp |-> away_temp]]]

\* DatabaseManager.upsert_thermostat: INSERT ... ON CONFLICT (thermostat_id) DO
\* UPDATE SET active = $9, away_temp = COALESCE(thermostats.away_temp, $10)
upsert_thermostat(d, away_temp, dbOk) ==
    IF ~dbOk THEN [ok |-> FALSE, thermostats |-> thermostats, inserted |-> inserted]
    ELSE IF thermostats[d].present
    THEN [ok |-> TRUE, inserted |-> inserted,
          thermostats |-> [thermostats EXCEPT
                              ![d].active = TRUE,
                              ![d].away_temp = IF @ # Null THEN @ ELSE away_temp]]
    ELSE [ok |-> TRUE, inserted |-> [inserted EXCEPT ![d] = @ + 1],
          thermostats |-> [thermostats EXCEPT ![d] =
                              [present |-> TRUE, active |-> TRUE, away_temp |-> away_temp]]]

\* step 1: get_thermostat_by_id and the choice of the away_temp of the record
RegLookup(t, d, readOk) ==
    /\ reg[t].pc = "idle"
    /\ registrations < MaxRegistrations
    /\ LET existing == readOk /\ thermostats[d].present
           away_temp == IF existing /\ thermostats[d].away_temp # Null
                        THEN thermostats[d].away_temp ELSE DefaultAwayTemp
       IN  reg' = [reg EXCEPT ![t] = [pc |-> "upsert", dev |-> d, away_temp |-> away_temp]]
    /\ registrations' = registrations + 1
    /\ UNCHANGED <<devVars, inserted>>
    /\ UNCHANGED exceptReg

\* steps 2 and 3: the ThermostatRecord and upsert_thermostat
RegUpsert(t, dbOk) ==
    /\ reg[t].pc = "upsert"
    /\ LET out == upsert_thermostat(reg[t].dev, reg[t].away_temp, dbOk)
       IN  /\ thermostats' = out.thermostats
           /\ inserted' = out.inserted
           /\ reg' = [reg EXCEPT ![t].pc = IF out.ok THEN "configure" ELSE "idle"]
    /\ UNCHANGED <<tstat, deviceConfig, posts, lastCmd, registrations>>
    /\ UNCHANGED exceptReg

\* step 4: the settings read and apply_intelligent_config, which are the
\* ConfigPolicy actions above and write nothing to the thermostats table
RegConfigure(t) ==
    /\ reg[t].pc = "configure"
    /\ reg' = [reg EXCEPT ![t].pc = "idle"]
    /\ UNCHANGED <<devVars, inserted, registrations>>
    /\ UNCHANGED exceptReg

\* the set_away_temp commands of the remote service
AwayTempCommands == {c \in ExecutorCommands : c.command = "set_away_temp"}

\* set_away_temp sends no device request: only the store outcome matters
AwayTempEnvs == {e \in Envs : e.lookupOk /\ e.post = "ok" /\ e.drift = "same"}

(***************************************************************************)
(* PollingLoop: state change detection in services/thermostat_server.py    *)
(***************************************************************************)
\* temperatures 0.49 and 0.5 degrees apart, and one far from both
Temps == {Deg(70), Deg(70) + 49, Deg(70) + 50, Deg(72)}

\* the six monitored fields of a StatusRecord
Readings ==
    [temp : Temps, t_heat : {Deg(50), Deg(68)}, tmode : {OFF, HEAT}, tstate : {0, 1},
     hold : {0, 1}, override : {0, 1}]

\* self._last_states.get(thermostat_id) of a device not read before
NoReading ==
    [temp |-> Null, t_heat |-> Null, tmode |-> Null, tstate |-> Null,
     hold |-> Null, override |-> Null]

TempThreshold == Deg(1) \div 2

\* ThermostatServer._classify_change_type
classify_change_type(changed_fields) ==
    IF changed_fields \cap {"tmode", "t_heat", "hold"} # {} THEN "manual_adjustment"
    ELSE IF "tstate" \in changed_fields THEN "hvac_state_change"
    ELSE IF "temp" \in changed_fields THEN "temperature_change"
    ELSE IF "override" \in changed_fields THEN "override_change"
    ELSE "other_change"

Detection(state_changed, change_type, changed_fields) ==
    [state_changed |-> state_changed, change_type |-> change_type,
     changed_fields |-> changed_fields]

\* a detector whose temperature threshold is exclusive
detect_state_change_exclusive(previous_status, current_status) ==
    IF previous_status = NoReading THEN Detection(FALSE, "first_reading", {})
    ELSE LET changed_fields ==
                 {f \in {"temp"} : Abs(current_status.temp - previous_status.temp) > TempThreshold}
                 \cup {f \in {"t_heat", "tmode", "tstate", "hold", "override"} :
                          current_status[f] # previous_status[f]}
         IN  IF changed_fields = {} THEN Detection(FALSE, "no_change", {})
             ELSE Detection(TRUE, classify_change_type(changed_fields), changed_fields)

\* a detector that compares the first reading of a device with an empty one
detect_state_change_no_baseline(previous_status, current_status) ==
    LET changed_fields ==
            {f \in {"temp"} : previous_status.temp = Null
                                \/ Abs(current_status.temp - previous_status.temp) >= TempThreshold}
            \cup {f \in {"t_heat", "tmode", "tstate", "hold", "override"} :
                     current_status[f] # previous_status[f]}
    IN  IF changed_fields = {} THEN Detection(FALSE, "no_change", {})
        ELSE Detection(TRUE, classify_change_type(changed_fields), changed_fields)

\* ThermostatServer._detect_state_change on the cached reading and the new one
detect_state_change(previous_status, current_status) ==
    IF previous_status = NoReading THEN Detection(FALSE, "first_reading", {})
    ELSE LET changed_fields ==
                 {f \in {"temp"} : Abs(current_status.temp - previous_status.temp) >= TempThreshold}
                 \cup {f \in {"t_heat", "tmode", "tstate", "hold", "override"} :
                          current_status[f] # previous_status[f]}
         IN  IF changed_fields = {} THEN Detection(FALSE, "no_change", {})
             ELSE Detection(TRUE, classify_change_type(changed_fields), changed_fields)

\* one call of _detect_state_change on a pair of consecutive readings
DetectStateChange ==
    /\ detected = <<>>
    /\ detected' = <<detect_state_change(prev_reading, cur_reading)>>
    /\ UNCHANGED <<prev_reading, cur_reading>>
    /\ UNCHANGED exceptDet

(***************************************************************************)
(* PollingLoop: _polling_service, _poll_and_store, _poll_single_and_store  *)
(***************************************************************************)
MaxQueue == 2

\* what GET /tstat of a polled device returns
PollReadings ==
    {r \in Readings : r.temp \in {Deg(70), Deg(70) + 50} /\ r.t_heat = Deg(68)
                      /\ r.tstate = 0 /\ r.override = 0}

IdleCycle == [pc |-> "idle", polled |-> {}, todo |-> {}, saved |-> {}, store_failed |-> {}]

NoPoll == [dev |-> "d1", outcome |-> "none", first |-> FALSE, state_changed |-> FALSE,
           queued |-> FALSE, cached |-> FALSE]

\* a poll that lets the classification decide: only a manual adjustment counts
detect_against_cache_manual_only(d, current_status) ==
    LET det == detect_state_change(last_states[d], current_status)
    IN  [det EXCEPT !.state_changed = @ /\ det.change_type = "manual_adjustment"]

\* self._detect_state_change(thermostat_id, current_status) on the cache
detect_against_cache(d, current_status) == detect_state_change(last_states[d], current_status)

\* _polling_service: the top of a cycle, get_active_thermostats and the start
\* of _poll_and_store; an empty list ends the cycle at once
PollCycleStart(readOk) ==
    /\ pollCycle.pc \in {"idle", "done"}
    /\ LET active == IF readOk
                     THEN {d \in Devices : thermostats[d].present /\ thermostats[d].active}
                     ELSE {}
       IN  pollCycle' = [pc |-> IF active = {} THEN "done" ELSE "polling",
                         polled |-> active, todo |-> active, saved |-> {},
                         store_failed |-> {}]
    /\ UNCHANGED <<last_states, lastPoll, upVars>>
    /\ UNCHANGED exceptPoll

\* _poll_single_and_store of one device of the cycle; the gather of
\* _poll_and_store is over when every device has been polled
PollSingle(d, outcome, data, saveOk) ==
    /\ pollCycle.pc = "polling"
    /\ d \in pollCycle.todo
    /\ LET rest == pollCycle.todo \ {d}
           det == detect_against_cache(d, data)
           queue == outcome = "ok" /\ det.state_changed
       IN  /\ queue => Len(upload_queue) < MaxQueue
           /\ pollCycle' = [pollCycle EXCEPT
                                !.pc = IF rest = {} THEN "done" ELSE "polling",
                                !.todo = rest,
                                !.saved = IF outcome = "ok" /\ saveOk THEN @ \cup {d} ELSE @,
                                !.store_failed = IF outcome = "ok" /\ ~saveOk
                                                 THEN @ \cup {d} ELSE @]
           /\ upload_queue' = IF queue THEN Append(upload_queue, d) ELSE upload_queue
           /\ last_states' = IF outcome = "ok" THEN [last_states EXCEPT ![d] = data]
                              ELSE last_states
           /\ lastPoll' = [dev |-> d, outcome |-> outcome,
                           first |-> last_states[d] = NoReading,
                           state_changed |-> outcome = "ok" /\ det.state_changed,
                           queued |-> queue,
                           cached |-> outcome = "ok"]
    /\ UNCHANGED <<batch_buffer, procRun, last_batch_time, last_immediate_upload,
                   status_checkpoint, statusSvc, lastTick, lastFallback, flushHist,
                   lastStatusWrite>>
    /\ UNCHANGED exceptPoll

(***************************************************************************)
(* Status uploads: UploadServices in public_sync/upload_services.py, the   *)
(* immediate batch processor and the periodic fallback                     *)
(***************************************************************************)
StatusUploadTicks == 2
ImmediateTimeoutTicks == 1
ImmediateBatchSize == 2

\* a time before the start of the process
PastTime == 0

NoProc == [pc |-> "off", current_time |-> Null]
NoSvc == [pc |-> "off", since |-> Null]
NoTick == [ticked |-> FALSE, uploaded |-> FALSE, flush_in_window |-> FALSE,
           accepted_in_window |-> FALSE, flushed |-> FALSE, accepted |-> FALSE]
NoFallback == [outcome |-> "none", advanced |-> FALSE]
NoStatusWrite == [by |-> "none", existed |-> FALSE, upload |-> "none"]
NoFlush == [last_end |-> Null, accepted_begin |-> Null, constructed |-> Null]

FallbackOutcomes == {"accepted", "failed", "raised"}

\* EnhancedPublicServerSync.get_sync_tasks: the upload tasks are created
SyncTasksStart ==
    /\ syncStarted
    /\ statusSvc.pc = "off"
    /\ statusSvc' = [pc |-> "sleeping", since |-> clock]
    /\ procRun' = [pc |-> "get", current_time |-> clock]
    /\ last_batch_time' = clock
    /\ UNCHANGED <<upload_queue, batch_buffer, last_immediate_upload, status_checkpoint,
                   lastTick, lastFallback, flushHist, lastStatusWrite>>
    /\ UNCHANGED <<clock, syncStarted>>
    /\ UNCHANGED exceptUp

\* UploadServices.queue_immediate_update, called for a changed device
QueueImmediateUpdate(d) ==
    /\ syncStarted
    /\ Len(upload_queue) < MaxQueue
    /\ upload_queue' = Append(upload_queue, d)
    /\ UNCHANGED <<batch_buffer, procRun, last_batch_time, last_immediate_upload,
                   status_checkpoint, statusSvc, lastTick, lastFallback, flushHist,
                   lastStatusWrite>>
    /\ UNCHANGED <<clock, syncStarted>>
    /\ UNCHANGED exceptUp

\* a marker that every flush moves, accepted or not
marker_after_flush_any(success, current_time) == current_time

\* immediate_upload_processor: last_immediate_upload after a flush
marker_after_flush(success, current_time) ==
    IF success THEN current_time ELSE last_immediate_upload

\* immediate_upload_processor: an update is taken from the queue; the batch is
\* sent when it is full or old enough
ProcGet ==
    /\ procRun.pc = "get"
    /\ upload_queue # <<>>
    /\ LET buffer == Append(batch_buffer, Head(upload_queue))
           batch_age == clock - last_batch_time
           should_send_batch == \/ Len(buffer) >= ImmediateBatchSize
                                \/ batch_age >= ImmediateTimeoutTicks
       IN  /\ batch_buffer' = buffer
           /\ procRun' = [pc |-> IF should_send_batch THEN "sending" ELSE "get",
                          current_time |-> clock]
    /\ upload_queue' = Tail(upload_queue)
    /\ UNCHANGED <<last_batch_time, last_immediate_upload, status_checkpoint, statusSvc,
                   lastTick, lastFallback, flushHist, lastStatusWrite>>
    /\ UNCHANGED <<clock, syncStarted>>
    /\ UNCHANGED exceptUp

\* immediate_upload_processor: the queue stayed empty for the wait; a batch
\* that is waiting is sent
ProcTimeout ==
    /\ procRun.pc = "get"
    /\ upload_queue = <<>>
    /\ batch_buffer # <<>>
    /\ procRun' = [pc |-> "sending", current_time |-> clock]
    /\ UNCHANGED <<upload_queue, batch_buffer, last_batch_time, last_immediate_upload,
                   status_checkpoint, statusSvc, lastTick, lastFallback, flushHist,
                   lastStatusWrite>>
    /\ UNCHANGED <<clock, syncStarted>>
    /\ UNCHANGED exceptUp

\* immediate_upload_processor: _send_status_upload(immediate=True) returned
ProcSendEnd(success) ==
    /\ procRun.pc = "sending"
    /\ last_immediate_upload' = marker_after_flush(success, procRun.current_time)
    /\ batch_buffer' = <<>>
    /\ last_batch_time' = procRun.current_time
    /\ procRun' = [procRun EXCEPT !.pc = "get"]
    /\ flushHist' = [flushHist EXCEPT !.last_end = clock,
                                      !.accepted_begin = IF success THEN procRun.current_time ELSE @]
    /\ UNCHANGED <<upload_queue, status_checkpoint, statusSvc, lastTick, lastFallback,
                   lastStatusWrite>>
    /\ UNCHANGED <<clock, syncStarted>>
    /\ UNCHANGED exceptUp

\* status_upload_service: the sleep is over; fall back or skip
FallbackTick ==
    /\ statusSvc.pc = "sleeping"
    /\ clock >= statusSvc.since + StatusUploadTicks
    /\ LET time_since_immediate == clock - last_immediate_upload
           upload == time_since_immediate >= StatusUploadTicks
       IN  /\ statusSvc' = [pc |-> IF upload THEN "uploading" ELSE "sleeping", since |-> clock]
           /\ lastTick' =
                  [ticked |-> TRUE, uploaded |-> upload,
                   flush_in_window |-> flushHist.last_end # Null
                                       /\ clock - flushHist.last_end < StatusUploadTicks,
                   accepted_in_window |->
                       clock - (IF flushHist.accepted_begin = Null THEN flushHist.constructed
                                ELSE flushHist.accepted_begin) < StatusUploadTicks,
                   flushed |-> flushHist.last_end # Null,
                   accepted |-> flushHist.accepted_begin # Null]
    /\ UNCHANGED <<upload_queue, batch_buffer, procRun, last_batch_time, last_immediate_upload,
                   status_checkpoint, lastFallback, flushHist, lastStatusWrite>>
    /\ UNCHANGED <<clock, syncStarted>>
    /\ UNCHANGED exceptUp

\* the status_upload checkpoint _upload_current_status_fallback leaves
status_checkpoint_after(has_rows, outcome, writeOk) ==
    IF has_rows /\ outcome = "accepted" /\ writeOk THEN clock ELSE status_checkpoint

\* UploadServices._upload_current_status_fallback returns: no rows to upload,
\* upload accepted, upload failed after its retries, or an exception
FallbackEnd(has_rows, outcome, writeOk) ==
    /\ statusSvc.pc = "uploading"
    /\ status_checkpoint' = status_checkpoint_after(has_rows, outcome, writeOk)
    /\ lastStatusWrite' =
           IF has_rows /\ outcome = "accepted" /\ writeOk
           THEN [by |-> "fallback", existed |-> status_checkpoint # Null, upload |-> outcome]
           ELSE lastStatusWrite
    /\ lastFallback' = [outcome |-> IF has_rows THEN outcome ELSE "no_data",
                        advanced |-> status_checkpoint_after(has_rows, outcome, writeOk)
                                     # status_checkpoint]
    /\ statusSvc' = [pc |-> "sleeping", since |-> clock]
    /\ UNCHANGED <<upload_queue, batch_buffer, procRun, last_batch_time, last_immediate_upload,
                   lastTick, flushHist>>
    /\ UNCHANGED <<clock, syncStarted>>
    /\ UNCHANGED exceptUp

\* configurations a caller can hand to _build_safe_thermostat_command: each
\* key missing, None or set; tmode inside and outside the allowed modes
BuilderConfigs ==
    [tmode : {Absent, Null, OFF, HEAT, COOL, AUTO, 0 - 5},
     t_heat : {Absent, Null, Deg(50)},
     t_cool : {Absent, Deg(78)},
     hold : {Absent, Null, 1},
     fmode : {Absent, Null, 0},
     time : {Absent}]

\* _apply_seasonal_defaults_with_hold / _apply_seasonal_safety_config: the call
\* of _build_safe_thermostat_command on the configuration
BuildSafeCommand ==
    /\ safe_command = <<>>
    /\ safe_command' = <<build_safe_thermostat_command(safe_config)>>
    /\ UNCHANGED <<date_today, seasonal_result, safe_config>>
    /\ UNCHANGED exceptFn

(***************************************************************************)
(* Outbound POSTs and their retry loops                                    *)
(***************************************************************************)
RetryAttempts == 3
ImmediateRetryAttempts == 2

\* the request raised instead of answering (connection refused, timeout)
NoResponse == 0 - 3
Responses == {200, 201, 422, 429, 500, NoResponse}

\* status uploads go through _send_status_upload, minute uploads through
\* UploadServices._post_with_retry, the others through
\* EnhancedPublicServerSync._post_with_retry
PostKinds == {"status_immediate", "status_fallback", "minute", "acks", "progress", "register"}
IdlePost == [kind |-> "none", responses |-> <<>>, result |-> "none"]

\* the number of passes of the loop
retry_attempts(kind) ==
    IF kind = "status_immediate" THEN ImmediateRetryAttempts ELSE RetryAttempts

\* one pass of the loop: return True, return False, or go round again
post_attempt(kind, status) ==
    IF kind \in {"acks", "progress", "register"}
    THEN \* EnhancedPublicServerSync._post_with_retry
         IF status \in {200, 201} THEN "true"
         ELSE IF status = 422 THEN "false"
         ELSE "retry"
    ELSE \* UploadServices._send_status_upload and UploadServices._post_with_retry
         IF status \in {200, 201} THEN "true"
         ELSE "retry"

\* a POST is handed to its retry loop; without a session it fails at once
PostStart(kind, hasSession) ==
    /\ postRun.result # "pending"
    /\ postRun' = [kind |-> kind, responses |-> <<>>,
                   result |-> IF hasSession THEN "pending" ELSE "false"]
    /\ UNCHANGED exceptPost

\* one pass of the loop with the response it got; after the last pass the
\* function returns False
PostAttempt(status) ==
    /\ postRun.result = "pending"
    /\ Len(postRun.responses) < retry_attempts(postRun.kind)
    /\ LET step == post_attempt(postRun.kind, status)
           last == Len(postRun.responses) + 1 = retry_attempts(postRun.kind)
       IN  postRun' = [postRun EXCEPT !.responses = Append(@, status),
                                      !.result = IF step # "retry" THEN step
                                                 ELSE IF last THEN "false" ELSE "pending"]
    /\ UNCHANGED exceptPost

(***************************************************************************)
(* Discovery engine: ThermostatDiscovery.discover_tcp_progressive, the TCP *)
(* range scan with a progress callback at every checkpoint                 *)
(***************************************************************************)
CheckpointEvery == 10
MaxIps == 25

\* the devices are named by the position of their address in the scan list
IdleScan == [pc |-> "idle", ips_total |-> 0, ips_scanned |-> 0,
             devices_since_checkpoint |-> 0, all_devices_found |-> 0, reported |-> <<>>,
             since_checkpoint |-> <<>>, found |-> <<>>]

\* an accumulator that is never emptied
accumulator_kept(checkpoint_now, since) == since

\* devices_since_checkpoint after the checkpoint test: reset after the callback
accumulator_after(checkpoint_now, since) == IF checkpoint_now THEN <<>> ELSE since

\* a checkpoint at the multiples of the interval only
is_checkpoint_multiple_only(ips_scanned, ips_total) ==
    ips_scanned % CheckpointEvery = 0

\* the checkpoint test of the scan loop
is_checkpoint(ips_scanned, ips_total) ==
    ips_scanned % CheckpointEvery = 0 \/ ips_scanned = ips_total

\* discover_tcp_progressive up to its loop: _generate_scan_ips gave n addresses
ScanStart(n) ==
    /\ scan.pc = "idle"
    /\ scan' = [IdleScan EXCEPT !.pc = "scanning", !.ips_total = n]
    /\ UNCHANGED exceptScan

\* one pass of the loop: _get_device_details answers with a device or None,
\* the counter moves, and at a checkpoint the callback is awaited
ScanIp(is_device) ==
    /\ scan.pc = "scanning"
    /\ scan.ips_scanned < scan.ips_total
    /\ LET ips_scanned == scan.ips_scanned + 1
           since == scan.devices_since_checkpoint + (IF is_device THEN 1 ELSE 0)
           checkpoint_now == is_checkpoint(ips_scanned, scan.ips_total)
           devices == IF is_device THEN Append(scan.since_checkpoint, ips_scanned)
                      ELSE scan.since_checkpoint
       IN  scan' = [scan EXCEPT
                        !.ips_scanned = ips_scanned,
                        !.all_devices_found = @ + (IF is_device THEN 1 ELSE 0),
                        !.found = IF is_device THEN Append(@, ips_scanned) ELSE @,
                        !.devices_since_checkpoint = IF checkpoint_now THEN 0 ELSE since,
                        !.since_checkpoint = accumulator_after(checkpoint_now, devices),
                        !.reported = IF checkpoint_now
                                     THEN Append(@, [new_devices |-> since,
                                                     devices |-> devices,
                                                     ips_scanned |-> ips_scanned,
                                                     ips_total |-> scan.ips_total])
                                     ELSE @]
    /\ UNCHANGED exceptScan

\* the loop is over: the DiscoveryResult is returned
ScanReturn ==
    /\ scan.pc = "scanning"
    /\ scan.ips_scanned = scan.ips_total
    /\ scan' = [scan EXCEPT !.pc = "done"]
    /\ UNCHANGED exceptScan

(***************************************************************************)
(* Remote discovery commands: DiscoveryCommandHandler.                     *)
(* _handle_device_registration, run when the phases of a command are over  *)
(***************************************************************************)
NoRegistrationResults ==
    [present |-> FALSE, local_registration_success |-> FALSE,
     public_server_registration_success |-> FALSE, devices_registered |-> 0]

IdleRemoteReg ==
    [pc |-> "idle", apply_initial_config |-> FALSE, devices_found |-> {}, new_devices |-> {},
     thermostats_to_register |-> {}, registration_results |-> NoRegistrationResults]

\* execute_discovery_command after _execute_discovery_phases returned COMPLETED
\* with the devices found: registration is entered when it was requested and
\* a device was found
RemoteDiscoveryCompleted(found, requested) ==
    /\ remoteReg.pc = "idle"
    /\ remoteReg' = [IdleRemoteReg EXCEPT
                         !.pc = IF requested /\ found # {} THEN "lookup" ELSE "done",
                         !.apply_initial_config = requested,
                         !.devices_found = found,
                         !.new_devices = {d \in found : ~thermostats[d].present}]
    /\ UNCHANGED exceptRreg

\* _handle_device_registration up to the POST: get_thermostat_by_id for every
\* device found (None when the row is missing or the read fails) and a
\* ThermostatRecord for each device without a row; nothing is written
RemoteRegLookup(readOk) ==
    /\ remoteReg.pc = "lookup"
    /\ LET thermostats_to_register ==
               {d \in remoteReg.devices_found : ~(readOk /\ thermostats[d].present)}
       IN  remoteReg' =
               IF thermostats_to_register # {}
               THEN [remoteReg EXCEPT !.pc = "registering",
                                      !.thermostats_to_register = thermostats_to_register]
               ELSE [remoteReg EXCEPT
                         !.pc = "done",
                         !.registration_results =
                             [present |-> TRUE, local_registration_success |-> TRUE,
                              public_server_registration_success |-> FALSE,
                              devices_registered |-> 0]]
    /\ UNCHANGED exceptRreg

\* public_sync.register_thermostats returned: the records were posted to the
\* remote service, and the outcome is put into the result
RemoteRegPosted(registration_success) ==
    /\ remoteReg.pc = "registering"
    /\ remoteReg' = [remoteReg EXCEPT
                         !.pc = "done",
                         !.registration_results =
                             [present |-> TRUE, local_registration_success |-> TRUE,
                              public_server_registration_success |-> registration_success,
                              devices_registered |->
                                  Cardinality(remoteReg.thermostats_to_register)]]
    /\ UNCHANGED exceptRreg

(***************************************************************************)
(* Lifecycle: ThermostatServer.start, the startup discovery of             *)
(* _enhanced_discovery_and_registration, and ThermostatServer.stop.  stop  *)
(* is a coroutine of its own: the signal handler of main.py creates it as  *)
(* a task whenever the signal arrives, the except clause of start and the  *)
(* finally clause of main await it.                                        *)
(***************************************************************************)
ServerTasks == {"discovery", "polling", "rollup", "monitoring", "weather"}
SyncTasks == {"immediate_upload", "status_upload", "minute_upload",
              "command_polling", "command_ack", "stats"}
TaskNames == ServerTasks \cup SyncTasks \cup {"tcp_task"}

\* the methods class ThermostatDiscovery defines
ThermostatDiscoveryMethods ==
    {"discover_combined_startup", "discover_from_database", "discover_udp_only",
     "discover_tcp_progressive", "_generate_scan_ips", "udp_multicast_discovery",
     "_parse_multicast_response", "ip_range_discovery", "_scan_ip_list",
     "_get_device_details", "_http_get", "rescan_known_devices"}

UdpFailures == {"none", "socket", "send"}

NoCombined == [called |-> FALSE, db_failed |-> FALSE, udp_failure |-> "none", raised |-> FALSE]

NewServer ==
    [pc |-> "new", stop_pc |-> "none", running |-> FALSE, tasks |-> {},
     session |-> FALSE, sync_running |-> FALSE,
     devices |-> {}, registered |-> {}, tcp_scan |-> "none", combined |-> NoCombined]

\* ThermostatDiscovery.udp_multicast_discovery: socket.socket() raising leaves
\* sock unbound, and sock.close() in the finally clause raises in its turn; a
\* failure after the socket exists is caught and logged
udp_multicast_discovery(failure, responders) ==
    IF failure = "socket" THEN [raised |-> TRUE, devices |-> {}]
    ELSE IF failure = "send" THEN [raised |-> FALSE, devices |-> {}]
    ELSE [raised |-> FALSE, devices |-> responders]

\* ThermostatDiscovery.discover_from_database: the lookup and the tests of
\* the known devices are inside one try
discover_from_database(dbOk, responsive) ==
    [raised |-> FALSE, devices |-> IF dbOk THEN responsive ELSE {}]

\* ThermostatDiscovery.discover_combined_startup: database, then UDP
discover_combined_startup(dbOk, responsive, failure, responders) ==
    LET db_result == discover_from_database(dbOk, responsive)
        udp_result == udp_multicast_discovery(failure, responders)
        all_devices == db_result.devices \cup udp_result.devices
    IN  IF db_result.raised \/ udp_result.raised
        THEN [raised |-> TRUE, devices |-> {}, should_continue_to_tcp |-> FALSE]
        ELSE [raised |-> FALSE, devices |-> all_devices,
              should_continue_to_tcp |-> all_devices = {}]

\* self.discovery.discover_tcp_batched(callback=...): the attribute lookup on
\* ThermostatDiscovery; without the method it raises AttributeError, which
\* the except clause of the caller logs
discover_tcp_batched == 
    IF "discover_tcp_batched" \in ThermostatDiscoveryMethods THEN "completed" ELSE "failed"

\* start up to the startup discovery: db.initialize, weather.start and
\* public_sync.start, which opens the session when the sync is enabled
ServerStart(startOk, syncEnabled) ==
    /\ srv.pc = "new"
    /\ srv' = [srv EXCEPT !.pc = IF startOk THEN "discovery" ELSE "start_failed",
                          !.session = startOk /\ syncEnabled,
                          !.sync_running = startOk /\ syncEnabled]
    /\ UNCHANGED <<taskState, stopLog>>
    /\ UNCHANGED exceptLife

\* _enhanced_discovery_and_registration up to its report: the combined
\* startup discovery, the registration of what it found and the background
\* task, or the way to the blocking scan
StartupDiscovery(dbOk, responsive, failure, responders, enable_background) ==
    /\ srv.pc = "discovery"
    /\ LET r == discover_combined_startup(dbOk, responsive, failure, responders)
           combined == [called |-> TRUE, db_failed |-> ~dbOk, udp_failure |-> failure,
                        raised |-> r.raised]
       IN  IF r.raised
           THEN /\ srv' = [srv EXCEPT !.pc = "start_failed", !.combined = combined]
                /\ UNCHANGED taskState
           ELSE IF r.devices # {}
           THEN /\ srv' = [srv EXCEPT
                               !.pc = "startup_report", !.combined = combined,
                               !.devices = r.devices, !.registered = r.devices,
                               !.tasks = IF enable_background THEN @ \cup {"tcp_task"} ELSE @]
                /\ taskState' = IF enable_background
                                THEN [taskState EXCEPT !["tcp_task"] = "pending"]
                                ELSE taskState
           ELSE /\ srv' = [srv EXCEPT !.pc = IF r.should_continue_to_tcp
                                             THEN "blocking_tcp" ELSE "startup_report",
                                      !.combined = combined]
                /\ UNCHANGED taskState
    /\ UNCHANGED stopLog
    /\ UNCHANGED exceptLife

\* _blocking_tcp_discovery
BlockingTcpDiscovery ==
    /\ srv.pc = "blocking_tcp"
    /\ srv' = [srv EXCEPT !.pc = "startup_report", !.tcp_scan = discover_tcp_batched]
    /\ UNCHANGED <<taskState, stopLog>>
    /\ UNCHANGED exceptLife

\* the task of _background_tcp_discovery runs as soon as the loop gets control
BackgroundTcpDiscovery ==
    /\ taskState["tcp_task"] = "pending"
    /\ taskState' = [taskState EXCEPT !["tcp_task"] = "finished"]
    /\ srv' = [srv EXCEPT !.tcp_scan = discover_tcp_batched]
    /\ UNCHANGED stopLog
    /\ UNCHANGED exceptLife

\* the report at the end of _enhanced_discovery_and_registration: the query
\* get_active_thermostats suspends start, so a task created before has run
StartupReport ==
    /\ srv.pc = "startup_report"
    /\ taskState["tcp_task"] # "pending"
    /\ srv' = [srv EXCEPT !.pc = "create_tasks"]
    /\ UNCHANGED <<taskState, stopLog>>
    /\ UNCHANGED exceptLife

\* start: self.running = True, self.tasks = [the five service tasks], then
\* the sync tasks, which get_sync_tasks creates while the sync is running
CreateTasks ==
    /\ srv.pc = "create_tasks"
    /\ LET created == ServerTasks \cup (IF srv.sync_running THEN SyncTasks ELSE {})
       IN  /\ srv' = [srv EXCEPT !.pc = "serving", !.running = TRUE, !.tasks = created]
           /\ taskState' = [t \in TaskNames |-> IF t \in created THEN "pending" ELSE taskState[t]]
    /\ UNCHANGED stopLog
    /\ UNCHANGED exceptLife

\* a stop that cancels nothing
cancel_none(tasks, states) == states

\* stop: task.cancel() for every task of self.tasks
cancel_tasks(tasks, states) ==
    [t \in TaskNames |-> IF t \in tasks /\ states[t] = "pending" THEN "cancelled" ELSE states[t]]

\* stop is entered: self.running = False and weather.stop
StopBegin ==
    /\ srv.pc # "new"
    /\ srv.stop_pc = "none"
    /\ srv' = [srv EXCEPT !.stop_pc = "sync", !.running = FALSE]
    /\ UNCHANGED <<taskState, stopLog>>
    /\ UNCHANGED exceptLife

\* EnhancedPublicServerSync.stop: the acknowledgments left are sent, then
\* the session is closed
StopSync(has_acks) ==
    /\ srv.stop_pc = "sync"
    /\ srv' = [srv EXCEPT !.stop_pc = "cancel", !.sync_running = FALSE, !.session = FALSE]
    /\ stopLog' = stopLog \o (IF has_acks THEN <<"send_command_acks">> ELSE <<>>)
                          \o (IF srv.session THEN <<"session_close">> ELSE <<>>)
    /\ UNCHANGED taskState
    /\ UNCHANGED exceptLife

\* stop: the tasks of self.tasks are cancelled and gathered
StopCancel ==
    /\ srv.stop_pc = "cancel"
    /\ srv' = [srv EXCEPT !.stop_pc = "close_db"]
    /\ taskState' = cancel_tasks(srv.tasks, taskState)
    /\ stopLog' = Append(stopLog, "tasks_cancelled")
    /\ UNCHANGED exceptLife

\* stop: db.close, and stop returns
StopCloseDb ==
    /\ srv.stop_pc = "close_db"
    /\ srv' = [srv EXCEPT !.stop_pc = "stopped"]
    /\ stopLog' = Append(stopLog, "db_close")
    /\ UNCHANGED taskState
    /\ UNCHANGED exceptLife

\* a service loop finds its running flag down and returns
TaskExit(t) ==
    /\ taskState[t] = "pending"
    /\ \/ t \in ServerTasks /\ ~srv.running
       \/ t \in {"command_polling", "command_ack", "stats"} /\ ~srv.sync_running
    /\ taskState' = [taskState EXCEPT ![t] = "finished"]
    /\ UNCHANGED <<srv, stopLog>>
    /\ UNCHANGED exceptLife

(***************************************************************************)
(* The devices of a discovery command:                                     *)
(* DiscoveryCommandHandler._execute_discovery_phases runs the database,    *)
(* UDP and TCP phases that are named in phases_to_run, in this order, and  *)
(* reports the devices found by UUID.                                      *)
(***************************************************************************)
\* the lists of phase names a command can carry
PhaseLists ==
    {<<>>} \cup {<<a>> : a \in ValidPhases}
           \cup {<<a, b>> : a, b \in ValidPhases}
           \cup {s \in [1..3 -> ValidPhases] : \A i, j \in 1..3 : i # j => s[i] # s[j]}

NoDiscoverable == [database |-> {}, udp_discovery |-> {}, tcp_discovery |-> {}]

IdleSweep ==
    [pc |-> "idle", phases_to_run |-> <<>>, discoverable |-> NoDiscoverable,
     db_ok |-> TRUE, udp_failure |-> "none",
     all_found_ids |-> {}, status |-> "none", devices_found |-> {}]

\* x in phases_to_run
InList(x, list) == \E i \in 1..Len(list) : list[i] = x

\* ThermostatDiscovery._generate_scan_ips: every address of the configured
\* ranges, whatever is known already
generate_scan_ips(ip_ranges, known) == ip_ranges

\* the progressive scan hands every device that answers to the callback of
\* _execute_tcp_phase, at the latest at the checkpoint of the last address
execute_tcp_phase(ip_ranges, known, answering) ==
    generate_scan_ips(ip_ranges, known) \cap answering

\* a discover_devices command arrives; what each phase can discover is fixed
\* by the database, the network and the devices
SweepStart(list, db, udp, tcp, dbOk, failure) ==
    /\ sweep.pc = "idle"
    /\ sweep' = [IdleSweep EXCEPT
                    !.pc = "database", !.phases_to_run = list,
                    !.discoverable = [database |-> db, udp_discovery |-> udp,
                                      tcp_discovery |-> tcp],
                    !.db_ok = dbOk, !.udp_failure = failure]
    /\ UNCHANGED exceptSweep

\* if "database" in phases_to_run: _execute_database_phase
SweepDatabase ==
    /\ sweep.pc = "database"
    /\ LET db_result == discover_from_database(sweep.db_ok, sweep.discoverable.database)
       IN  sweep' = [sweep EXCEPT
                        !.pc = "udp_discovery",
                        !.all_found_ids = IF InList("database", sweep.phases_to_run)
                                          THEN @ \cup db_result.devices ELSE @]
    /\ UNCHANGED exceptSweep

\* if "udp_discovery" in phases_to_run: _execute_udp_phase; what it raises
\* is caught by _execute_discovery_phases, which returns FAILED with empty
\* discovery_results
SweepUdp ==
    /\ sweep.pc = "udp_discovery"
    /\ LET udp_result == udp_multicast_discovery(sweep.udp_failure,
                                                 sweep.discoverable.udp_discovery)
       IN  IF ~InList("udp_discovery", sweep.phases_to_run)
           THEN sweep' = [sweep EXCEPT !.pc = "tcp_discovery"]
           ELSE IF udp_result.raised
           THEN sweep' = [sweep EXCEPT !.pc = "done", !.status = "failed",
                                       !.devices_found = {}]
           ELSE sweep' = [sweep EXCEPT !.pc = "tcp_discovery",
                                       !.all_found_ids = @ \cup udp_result.devices]
    /\ UNCHANGED exceptSweep

\* if "tcp_discovery" in phases_to_run: _execute_tcp_phase; then the result
\* is built from the devices found
SweepTcp ==
    /\ sweep.pc = "tcp_discovery"
    /\ LET tcp_devices == execute_tcp_phase(Devices, sweep.all_found_ids,
                                            sweep.discoverable.tcp_discovery)
           found == IF InList("tcp_discovery", sweep.phases_to_run)
                    THEN sweep.all_found_ids \cup tcp_devices
                    ELSE sweep.all_found_ids
       IN  sweep' = [sweep EXCEPT !.pc = "done", !.status = "completed",
                                  !.all_found_ids = found, !.devices_found = found]
    /\ UNCHANGED exceptSweep

(***************************************************************************)
(* Upload arbitration over unbounded time: the immediate processor and the *)
(* fallback service of UploadServices with their timers kept as ages that  *)
(* saturate at the interval they are compared with, the remote service     *)
(* that refuses uploads until it recovers, and the devices with a detected *)
(* change that no accepted upload has contained since.                     *)
(***************************************************************************)
NewRelay ==
    [pc |-> "get", queue |-> <<>>, buffer |-> <<>>,
     batch_age |-> 0, sending_for |-> 0, since_immediate |-> 0,
     svc |-> "sleeping", slept |-> 0, remote_up |-> FALSE, owed |-> {}]

Older(age, limit) == IF age < limit THEN age + 1 ELSE limit

Elements(seq) == {seq[i] : i \in 1..Len(seq)}

\* _poll_single_and_store detects a change of d and queues its reading
RelayChange(d) ==
    /\ Len(relay.queue) < MaxQueue
    /\ relay' = [relay EXCEPT !.queue = Append(@, d), !.owed = @ \cup {d}]
    /\ UNCHANGED exceptRelay

\* immediate_upload_processor: an entry is taken from the queue
RelayGet ==
    /\ relay.pc = "get"
    /\ relay.queue # <<>>
    /\ LET buffer == Append(relay.buffer, Head(relay.queue))
           should_send_batch == \/ Len(buffer) >= ImmediateBatchSize
                                \/ relay.batch_age >= ImmediateTimeoutTicks
       IN  relay' = [relay EXCEPT !.queue = Tail(@), !.buffer = buffer,
                                  !.pc = IF should_send_batch THEN "sending" ELSE "get",
                                  !.sending_for = 0]
    /\ UNCHANGED exceptRelay

\* immediate_upload_processor: nothing came within the wait, the batch goes
RelayTimeout ==
    /\ relay.pc = "get"
    /\ relay.queue = <<>>
    /\ relay.buffer # <<>>
    /\ relay' = [relay EXCEPT !.pc = "sending", !.sending_for = 0]
    /\ UNCHANGED exceptRelay

\* immediate_upload_processor: _send_status_upload returned; the batch is
\* dropped whatever the result, the marker moves on success
RelaySendEnd ==
    /\ relay.pc = "sending"
    /\ LET success == relay.remote_up
       IN  relay' = [relay EXCEPT
                        !.pc = "get", !.buffer = <<>>,
                        !.batch_age = relay.sending_for,
                        !.since_immediate = IF success THEN relay.sending_for ELSE @,
                        !.owed = IF success THEN @ \ Elements(relay.buffer) ELSE @]
    /\ UNCHANGED exceptRelay

\* status_upload_service: the sleep is over; the snapshot is uploaded unless
\* an immediate upload was accepted within the interval
RelayFallbackTick ==
    /\ relay.svc = "sleeping"
    /\ relay.slept >= StatusUploadTicks
    /\ relay' = [relay EXCEPT
                    !.svc = IF relay.since_immediate >= StatusUploadTicks
                            THEN "uploading" ELSE "sleeping",
                    !.slept = 0]
    /\ UNCHANGED exceptRelay

\* _upload_current_status_fallback returned: an accepted snapshot carries
\* the current state of every device
RelayFallbackEnd ==
    /\ relay.svc = "uploading"
    /\ relay' = [relay EXCEPT !.svc = "sleeping", !.slept = 0,
                              !.owed = IF relay.remote_up THEN {} ELSE @]
    /\ UNCHANGED exceptRelay

\* time passes
RelayTick ==
    /\ relay' = [relay EXCEPT
                    !.batch_age = Older(@, ImmediateTimeoutTicks),
                    !.sending_for = IF relay.pc = "sending"
                                    THEN Older(@, StatusUploadTicks) ELSE @,
                    !.since_immediate = Older(@, StatusUploadTicks),
                    !.slept = IF relay.svc = "sleeping"
                              THEN Older(@, StatusUploadTicks) ELSE @]
    /\ UNCHANGED exceptRelay

\* the remote service starts to accept uploads
RemoteRecovers ==
    /\ ~relay.remote_up
    /\ relay' = [relay EXCEPT !.remote_up = TRUE]
    /\ UNCHANGED exceptRelay

(***************************************************************************)
(* The records of a device identity: ThermostatDiscovery.known_devices of   *)
(* the running process and the thermostats row, written by the discoveries  *)
(* of the server and read by the polling service                            *)
(***************************************************************************)
Addresses == {1, 2}

\* no ThermostatDevice, no row
NoIdentity == [discovery_method |-> "", ip |-> 0]

NoDevices == [d \in Devices |-> NoIdentity]

\* device_ip: the address each device answers at; started: the startup
\* discovery of this process has run; last_discovery: the devices the last
\* discovery of the server returned; polled: the address each device was
\* polled at in the last polling cycle since then (0: not polled)
NewIdentity ==
    [device_ip |-> [d \in Devices |-> 1], started |-> FALSE, known_devices |-> NoDevices,
     rows |-> NoDevices, last_discovery |-> [kind |-> "", devices |-> NoDevices],
     polled |-> [d \in Devices |-> 0]]

\* _get_device_details(ip, method) of a device that answers
get_device_details(id, d, method) == [discovery_method |-> method, ip |-> id.device_ip[d]]

\* discover_from_database: the active rows whose saved address answers
database_devices(id, responders) ==
    {d \in responders : id.rows[d] # NoIdentity /\ id.rows[d].ip = id.device_ip[d]}

\* discover_combined_startup: all_devices, keyed by uuid; a UDP responder is
\* added only when the database phase did not find its uuid
combined_devices(id, responders, udp) ==
    [d \in Devices |->
        IF d \in database_devices(id, responders) THEN get_device_details(id, d, "database")
        ELSE IF d \in udp THEN get_device_details(id, d, "udp_multicast")
        ELSE NoIdentity]

\* self.known_devices.update(all_devices), and known_devices[uuid] = device
known_devices_update(known, found) ==
    [d \in Devices |-> IF found[d] # NoIdentity THEN found[d] ELSE known[d]]

\* _register_and_configure_devices with upsert_thermostat: ON CONFLICT
\* (thermostat_id) DO UPDATE SET ip_address = $2, ..., discovery_method = $8
register_devices(rows, devices) ==
    [d \in Devices |-> IF devices[d] # NoIdentity THEN devices[d] ELSE rows[d]]

\* the devices _discovery_service hands to the registration: those for which
\* get_thermostat_by_id returns None
new_devices(rows, found) ==
    [d \in Devices |-> IF rows[d] = NoIdentity THEN found[d] ELSE NoIdentity]

\* a device gets another address (DHCP)
IdMove(d, a) ==
    /\ a # identity.device_ip[d]
    /\ identity' = [identity EXCEPT !.device_ip[d] = a]
    /\ UNCHANGED exceptId

\* the process is started again: ThermostatDiscovery.__init__
IdRestart ==
    /\ identity.started
    /\ identity' = [identity EXCEPT !.started = FALSE, !.known_devices = NoDevices]
    /\ UNCHANGED exceptId

\* ThermostatServer.start: discover_combined_startup and the registration of
\* every device it returned
IdStartup(responders, udp) ==
    /\ ~identity.started
    /\ LET found == combined_devices(identity, responders, udp)
       IN  identity' = [identity EXCEPT
               !.started = TRUE,
               !.known_devices = known_devices_update(@, found),
               !.rows = register_devices(@, found),
               !.last_discovery = [kind |-> "startup", devices |-> found],
               !.polled = [d \in Devices |-> 0]]
    /\ UNCHANGED exceptId

\* one round of _discovery_service: discover_combined_startup and the
\* registration of the devices that have no row
IdPeriodic(responders, udp) ==
    /\ identity.started
    /\ LET found == combined_devices(identity, responders, udp)
       IN  identity' = [identity EXCEPT
               !.known_devices = known_devices_update(@, found),
               !.rows = register_devices(@, new_devices(identity.rows, found)),
               !.last_discovery = [kind |-> "periodic", devices |-> found],
               !.polled = [d \in Devices |-> 0]]
    /\ UNCHANGED exceptId

\* the TCP phase of a discovery command: discover_tcp_progressive records
\* every device it finds in known_devices; the command registers its devices
\* with the remote service only
IdCommandTcp(responders) ==
    /\ identity.started
    /\ responders # {}
    /\ identity' = [identity EXCEPT
           !.known_devices = known_devices_update(@,
               [d \in Devices |-> IF d \in responders
                                  THEN get_device_details(identity, d, "tcp_scan")
                                  ELSE NoIdentity])]
    /\ UNCHANGED exceptId

\* one cycle of _polling_service: the addresses of get_active_thermostats
IdPoll ==
    /\ identity.started
    /\ identity' = [identity EXCEPT !.polled = [d \in Devices |-> identity.rows[d].ip]]
    /\ UNCHANGED exceptId

(***************************************************************************)
(* A long acknowledgment queue: the remote service was unreachable while   *)
(* commands kept being executed, and _send_command_acks runs on the        *)
(* backlog.  Acknowledgments are numbered in the order they were queued.   *)
(***************************************************************************)
MaxAcks == 103
MaxArrivals == 1

IdleTrim == [pc |-> "idle", queued |-> <<>>, at_result |-> <<>>, success |-> FALSE,
             after |-> <<>>]

\* the acknowledgments numbered first..last
AckRun(first, last) == [i \in 1..(last - first + 1) |-> first + i - 1]

\* n acknowledgments are waiting when the service wakes up and starts the POST
AckBacklog(n) ==
    /\ ackTrim.pc = "idle"
    /\ ackTrim' = [IdleTrim EXCEPT !.pc = "sending", !.queued = AckRun(1, n)]
    /\ UNCHANGED exceptTrim

\* the POST returns; the polling loop queued more acknowledgments meanwhile
AckBacklogSent(success, arrived) ==
    /\ ackTrim.pc = "sending"
    /\ LET queue == ackTrim.queued \o AckRun(Len(ackTrim.queued) + 1,
                                             Len(ackTrim.queued) + arrived)
       IN  ackTrim' = [ackTrim EXCEPT !.pc = "sent", !.at_result = queue,
                                      !.success = success,
                                      !.after = acks_after_send(queue, success)]
    /\ UNCHANGED exceptTrim

(***************************************************************************)
(* Initial state and the specifications, one per component                 *)
(***************************************************************************)
InitTstat ==
    [tmode : {OFF, HEAT, COOL}, t_heat : {Deg(50), Deg(68)}, t_cool : {Deg(78)},
     hold : {0, 1}, fmode : {2}]

DefaultTstat == [tmode |-> HEAT, t_heat |-> Deg(68), t_cool |-> Deg(78), hold |-> 1, fmode |-> 2]

\* both devices registered, the second one marked inactive
InitThermostats ==
    thermostats = [d \in Devices |->
                     [present |-> TRUE, active |-> d = "d1", away_temp |-> Deg(50)]]

\* everything but the devices, the thermostats table and the time of the start
InitServer ==
    /\ deviceConfig = [d \in Devices |-> NoConfigRow]
    /\ posts = <<>>
    /\ lastCmd = NoCmd
    /\ cfg = IdleCfg
    /\ command_acks = <<>>
    /\ ackSend = [pc |-> "idle", batch |-> <<>>]
    /\ pending = <<>>
    /\ issued = 0
    /\ ackCount = [c \in CmdIds |-> 0]
    /\ delivered = {}
    /\ dropped = {}
    /\ rollupNow = Null
    /\ minute_readings = {}
    /\ checkpoint = Null
    /\ acceptedRows = {}
    /\ minRun = NoRun
    /\ syncStarted = FALSE
    /\ pollStart = Null
    /\ active_discovery = NoDiscovery
    /\ phase_history = NoHistory
    /\ discRun = [c \in DiscCmds |-> IdleRun]
    /\ discResult = [c \in DiscCmds |-> NoResult]
    /\ progress = NewProgress

\* no seasonal rule evaluated and no command built yet
InitFn ==
    /\ date_today = <<1, 1>>
    /\ seasonal_result = NoSeasonal
    /\ safe_config = NoPayload
    /\ safe_command = <<>>

\* no registration in progress; one row inserted for each registered device
InitReg ==
    /\ reg = [t \in RegTasks |-> IdleReg]
    /\ inserted = [d \in Devices |-> IF thermostats[d].present THEN 1 ELSE 0]
    /\ registrations = 0

\* no reading compared yet
InitDet ==
    /\ prev_reading = NoReading
    /\ cur_reading = NoReading
    /\ detected = <<>>

\* process start: nothing cached, no cycle run
InitPoll ==
    /\ last_states = [d \in Devices |-> NoReading]
    /\ pollCycle = IdleCycle
    /\ lastPoll = NoPoll

\* no POST under way, no scan started, no remote discovery completed
InitTail ==
    /\ postRun = IdlePost
    /\ scan = IdleScan
    /\ remoteReg = IdleRemoteReg
    /\ sweep = IdleSweep
    /\ relay = NewRelay
    /\ ackTrim = IdleTrim
    /\ identity = NewIdentity
    /\ srv = NewServer
    /\ taskState = [t \in TaskNames |-> "none"]
    /\ stopLog = <<>>

\* no upload task running, nothing queued or sent
InitUpTasks ==
    /\ InitTail
    /\ upload_queue = <<>>
    /\ batch_buffer = <<>>
    /\ procRun = NoProc
    /\ last_batch_time = Null
    /\ last_immediate_upload = Null
    /\ statusSvc = NoSvc
    /\ lastTick = NoTick
    /\ lastFallback = NoFallback
    /\ flushHist = NoFlush
    /\ lastStatusWrite = NoStatusWrite

\* first start: the store holds no status_upload checkpoint
InitUp == InitUpTasks /\ status_checkpoint = Null

InitLate == InitThermostats /\ InitFn /\ InitReg /\ InitDet /\ InitPoll /\ InitUp

\* the server side starts with both devices in the default state
Init ==
    /\ tstat = [d \in Devices |-> DefaultTstat]
    /\ clock \in TicksPerMinute..(2 * TicksPerMinute - 1)
    /\ InitServer
    /\ InitLate

\* the process runs on any day of the year
InitAnyDate ==
    /\ tstat = [d \in Devices |-> DefaultTstat]
    /\ clock = TicksPerMinute
    /\ InitServer
    /\ InitThermostats
    /\ date_today \in AllDates
    /\ seasonal_result = NoSeasonal
    /\ safe_config = NoPayload
    /\ safe_command = <<>>
    /\ InitReg
    /\ InitDet
    /\ InitPoll
    /\ InitUp

\* the device handed to the policy or addressed by a command is in any state
InitAnyDevice ==
    /\ tstat \in [Devices -> InitTstat]
    /\ tstat["d2"] = DefaultTstat
    /\ clock = TicksPerMinute
    /\ InitServer
    /\ InitLate

NextConfig ==
    \/ \E d \in Registered, dtype \in DiscoveryTypes, today \in Dates, outcome \in ReadOutcomes :
           CfgStart(d, dtype, today, outcome)
    \/ \E outcome \in ReadOutcomes : CfgInitial(outcome)
    \/ \E outcome \in ReadOutcomes : CfgRead(outcome)
    \/ \E outcome \in HttpOutcomes, timeOutcome \in ReadOutcomes, dbOk \in BOOLEAN :
           CfgFallback(outcome, timeOutcome, dbOk)
    \/ \E outcome \in ReadOutcomes, dbOk \in BOOLEAN : CfgSeasonal(outcome, dbOk)
    \/ \E dbOk \in BOOLEAN : CfgPreserve(dbOk)
    \/ \E d \in Registered, st \in TstatStates : Occupant(d, st)

SpecConfig == InitAnyDevice /\ [][NextConfig]_vars

NextCmd ==
    \/ \E cmd \in ExecutorCommands, env \in Envs : RunCommand(cmd, env)
    \/ \E tid \in ThermostatIds, tmode \in {OFF, HEAT, COOL, AUTO}, outcome \in ApiOutcomes, dbOk \in BOOLEAN :
           ApiSetMode(tid, tmode, outcome, dbOk)
    \/ \E tid \in ThermostatIds, t_heat \in {Deg(50), Deg(70)}, hold \in BOOLEAN,
          outcome \in ApiOutcomes, dbOk \in BOOLEAN :
           ApiSetTemperature(tid, t_heat, hold, outcome, dbOk)

SpecCmd == InitAnyDevice /\ [][NextCmd]_vars

NextSync ==
    \/ \E k \in 0..MaxPoll : Poll(k)
    \/ \E cmd \in SyncCommands, env \in SyncEnvs, disc \in DiscoveryOutcomes, hasExecutor \in BOOLEAN :
           ExecuteCommand(cmd, env, disc, hasExecutor)
    \/ AckSendBegin
    \/ \E success \in BOOLEAN : AckSendEnd(success)

SpecSync == Init /\ [][NextSync]_vars

NextMinute ==
    \/ \E readOk \in BOOLEAN, writeOk \in BOOLEAN, statusReadOk \in BOOLEAN,
          statusWriteOk \in BOOLEAN : SyncStart(readOk, writeOk, statusReadOk, statusWriteOk)
    \/ TasksStart
    \/ Tick
    \/ \E devs \in SUBSET Devices : Rollup(devs)
    \/ \E readOk \in BOOLEAN, queryOk \in BOOLEAN, failed_at \in 0..MaxBatches, writeOk \in BOOLEAN :
           UploadMinute(readOk, queryOk, failed_at, writeOk)

SpecMinute == Init /\ [][NextMinute]_vars

NextDisc ==
    \/ \E c \in DiscCmds, p \in PhasesInputs : DiscInvoke(c, p)
    \/ \E c \in DiscCmds : DiscPhaseStart(c)
    \/ \E c \in DiscCmds, ok \in BOOLEAN : DiscPhaseEnd(c, ok)
    \/ \E c \in DiscCmds : DiscFinish(c)
    \/ \E c \in DiscCmds : DiscCancel(c)
    \/ \E c \in DiscCmds : DiscPhaseUpdate(c)
    \/ \E c \in DiscCmds : DiscFinalProgress(c)

SpecDisc == Init /\ [][NextDisc]_vars

\* the builder is called on any configuration
InitAnyConfig ==
    /\ tstat = [d \in Devices |-> DefaultTstat]
    /\ clock = TicksPerMinute
    /\ InitServer
    /\ date_today = <<1, 1>>
    /\ seasonal_result = NoSeasonal
    /\ safe_config \in BuilderConfigs
    /\ safe_command = <<>>
    /\ InitThermostats
    /\ InitReg
    /\ InitDet
    /\ InitPoll
    /\ InitUp

NextBuild == BuildSafeCommand

SpecBuild == InitAnyConfig /\ [][NextBuild]_vars

\* one device known to the store, the other one never seen before
InitNewDevice ==
    /\ tstat = [d \in Devices |-> DefaultTstat]
    /\ clock = TicksPerMinute
    /\ InitServer
    /\ thermostats = [d \in Devices |->
                        IF d = "d1"
                        THEN [present |-> TRUE, active |-> TRUE, away_temp |-> DefaultAwayTemp]
                        ELSE [present |-> FALSE, active |-> FALSE, away_temp |-> Null]]
    /\ InitFn
    /\ InitReg
    /\ InitDet
    /\ InitPoll
    /\ InitUp

NextRegister ==
    \/ \E t \in RegTasks, d \in Devices, readOk \in BOOLEAN : RegLookup(t, d, readOk)
    \/ \E t \in RegTasks, dbOk \in BOOLEAN : RegUpsert(t, dbOk)
    \/ \E t \in RegTasks : RegConfigure(t)
    \/ \E cmd \in AwayTempCommands, env \in AwayTempEnvs : RunCommand(cmd, env)

SpecRegister == InitNewDevice /\ [][NextRegister]_vars

\* any two consecutive readings of a device
InitAnyReadings ==
    /\ tstat = [d \in Devices |-> DefaultTstat]
    /\ clock = TicksPerMinute
    /\ InitServer
    /\ InitThermostats
    /\ InitFn
    /\ InitReg
    /\ prev_reading \in Readings
    /\ cur_reading \in Readings
    /\ detected = <<>>
    /\ InitPoll
    /\ InitUp

NextDetect == DetectStateChange

SpecDetect == InitAnyReadings /\ [][NextDetect]_vars

\* the first device is active; the second one is active or marked inactive
InitPolling ==
    /\ tstat = [d \in Devices |-> DefaultTstat]
    /\ clock = TicksPerMinute
    /\ InitServer
    /\ thermostats \in [Devices -> [present : {TRUE}, active : BOOLEAN, away_temp : {DefaultAwayTemp}]]
    /\ thermostats["d1"].active
    /\ InitFn
    /\ InitReg
    /\ InitDet
    /\ InitPoll
    /\ InitUp

NextPoll ==
    \/ \E readOk \in BOOLEAN : PollCycleStart(readOk)
    \/ \E d \in Devices, outcome \in HttpOutcomes, data \in PollReadings, saveOk \in BOOLEAN :
           PollSingle(d, outcome, data, saveOk)

SpecPoll == InitPolling /\ [][NextPoll]_vars

\* a first start, or a restart with a status_upload checkpoint in the store
InitStatus ==
    /\ tstat = [d \in Devices |-> DefaultTstat]
    /\ clock = TicksPerMinute
    /\ InitServer
    /\ InitThermostats
    /\ InitFn
    /\ InitReg
    /\ InitDet
    /\ InitPoll
    /\ InitUpTasks
    /\ status_checkpoint \in {Null, PastTime}

\* the fallback service alone, with every outcome of the store and the upload
NextFallback ==
    \/ \E statusReadOk \in BOOLEAN, statusWriteOk \in BOOLEAN :
           SyncStart(TRUE, TRUE, statusReadOk, statusWriteOk)
    \/ SyncTasksStart
    \/ Tick
    \/ FallbackTick
    \/ \E has_rows \in BOOLEAN, outcome \in FallbackOutcomes, writeOk \in BOOLEAN :
           FallbackEnd(has_rows, outcome, writeOk)

SpecFallback == InitStatus /\ [][NextFallback]_vars

\* the immediate processor and the fallback service side by side, the store working
NextStatus ==
    \/ SyncStart(TRUE, TRUE, TRUE, TRUE)
    \/ SyncTasksStart
    \/ Tick
    \/ \E d \in Registered : QueueImmediateUpdate(d)
    \/ ProcGet
    \/ ProcTimeout
    \/ \E success \in BOOLEAN : ProcSendEnd(success)
    \/ FallbackTick
    \/ \E outcome \in {"accepted", "failed"} : FallbackEnd(TRUE, outcome, TRUE)

SpecStatus == Init /\ [][NextStatus]_vars

NextSeasonal == DetermineSeasonal

SpecSeasonal == InitAnyDate /\ [][NextSeasonal]_vars

\* the retry loops of the outbound POSTs
NextPost ==
    \/ \E kind \in PostKinds, hasSession \in BOOLEAN : PostStart(kind, hasSession)
    \/ \E status \in Responses : PostAttempt(status)

SpecPost == Init /\ [][NextPost]_vars

NextId ==
    \/ \E d \in Devices, a \in Addresses : IdMove(d, a)
    \/ IdRestart
    \/ \E responders \in SUBSET Devices, udp \in SUBSET Devices :
           udp \subseteq responders /\ IdStartup(responders, udp)
    \/ \E responders \in SUBSET Devices, udp \in SUBSET Devices :
           udp \subseteq responders /\ IdPeriodic(responders, udp)
    \/ \E responders \in SUBSET Devices : IdCommandTcp(responders)
    \/ IdPoll

SpecId == Init /\ [][NextId]_vars

\* one send of a backlog of every length up to the bound
NextTrim ==
    \/ \E n \in 1..MaxAcks : AckBacklog(n)
    \/ \E success \in BOOLEAN, arrived \in 0..MaxArrivals : AckBacklogSent(success, arrived)

SpecTrim == Init /\ [][NextTrim]_vars

\* the upload paths over unbounded time, changes arriving at any moment
NextRelay ==
    \/ \E d \in Devices : RelayChange(d)
    \/ RelayGet
    \/ RelayTimeout
    \/ RelaySendEnd
    \/ RelayFallbackTick
    \/ RelayFallbackEnd
    \/ RelayTick
    \/ RemoteRecovers

\* the tasks run, time passes and the remote service recovers; nothing is
\* assumed about when devices change
SpecRelayLive ==
    /\ Init
    /\ [][NextRelay]_vars
    /\ WF_vars(RelayGet) /\ WF_vars(RelayTimeout) /\ WF_vars(RelaySendEnd)
    /\ WF_vars(RelayFallbackTick) /\ WF_vars(RelayFallbackEnd)
    /\ WF_vars(RelayTick) /\ WF_vars(RemoteRecovers)

\* one discovery command with every list of phases and every outcome of
\* the phases
NextSweep ==
    \/ \E list \in PhaseLists, db \in SUBSET Registered, udp \in SUBSET Devices,
          tcp \in SUBSET Devices, dbOk \in BOOLEAN, failure \in UdpFailures :
           SweepStart(list, db, udp, tcp, dbOk, failure)
    \/ SweepDatabase
    \/ SweepUdp
    \/ SweepTcp

SpecSweep == Init /\ [][NextSweep]_vars

\* the start of the server with every outcome of the startup discovery, and
\* a stop at any time
NextLife ==
    \/ \E startOk \in BOOLEAN, syncEnabled \in BOOLEAN : ServerStart(startOk, syncEnabled)
    \/ \E dbOk \in BOOLEAN, responsive \in SUBSET Registered, failure \in UdpFailures,
          responders \in SUBSET Devices, enable_background \in BOOLEAN :
           StartupDiscovery(dbOk, responsive, failure, responders, enable_background)
    \/ BlockingTcpDiscovery
    \/ BackgroundTcpDiscovery
    \/ StartupReport
    \/ CreateTasks
    \/ StopBegin
    \/ \E has_acks \in BOOLEAN : StopSync(has_acks)
    \/ StopCancel
    \/ StopCloseDb
    \/ \E t \in {"polling", "command_ack"} : TaskExit(t)

SpecLife == Init /\ [][NextLife]_vars

\* a remote discovery command completes while the local registration path
\* is at work for a periodic discovery
NextRemoteReg ==
    \/ \E found \in SUBSET Devices, requested \in BOOLEAN : RemoteDiscoveryCompleted(found, requested)
    \/ \E readOk \in BOOLEAN : RemoteRegLookup(readOk)
    \/ \E registration_success \in BOOLEAN : RemoteRegPosted(registration_success)
    \/ \E d \in Devices, readOk \in BOOLEAN : RegLookup("t1", d, readOk)
    \/ \E dbOk \in BOOLEAN : RegUpsert("t1", dbOk)
    \/ RegConfigure("t1")

SpecRemoteReg == InitNewDevice /\ [][NextRemoteReg]_vars

\* TCP range scans over every number of addresses up to MaxIps; a device
\* answers at the first addresses only
\* the addresses where a device may answer: the first two, the last of a
\* checkpoint interval and the first of the next
DeviceAddresses == {1, 2, CheckpointEvery, CheckpointEvery + 1}

NextScan ==
    \/ \E n \in 0..MaxIps : ScanStart(n)
    \/ \E is_device \in (IF scan.ips_scanned + 1 \in DeviceAddresses THEN BOOLEAN ELSE {FALSE}) :
           ScanIp(is_device)
    \/ ScanReturn

SpecScan == Init /\ [][NextScan]_vars

Next == NextConfig \/ NextCmd \/ NextSync \/ NextMinute \/ NextDisc \/ NextSeasonal \/ NextBuild \/ NextRegister \/ NextDetect \/ NextPoll \/ NextFallback \/ NextStatus \/ NextPost \/ NextScan \/ NextRemoteReg \/ NextLife \/ NextSweep \/ NextRelay \/ NextTrim \/ NextId

Spec == InitAnyDevice /\ [][Next]_vars

(***************************************************************************)
(* Properties                                                              *)
(***************************************************************************)
ConfigWrites == {i \in 1..Len(posts) : posts[i].by = "config" /\ posts[i].dev = cfg.dev}

\* C1: when the settings read of a device reports hold = 1, every write the
\* policy sends to that device, for the startup and the periodic discovery
\* type alike, is the fan-off baseline {fmode: 0}; none carries tmode, t_heat
\* or hold.
C1_HoldPreserved ==
    (cfg.pc # "idle" /\ cfg.settings.ok /\ cfg.settings.hold = 1) =>
        \A i \in ConfigWrites :
            /\ posts[i].payload = initial_settings
            /\ posts[i].payload.tmode = Absent
            /\ posts[i].payload.t_heat = Absent
            /\ posts[i].payload.hold = Absent

\* a periodic run on a device read with hold = 1 in an unsafe state has ended
\* having sent the baseline write and nothing else
C1_Witness ==
    /\ cfg.pc = "done"
    /\ cfg.dtype = "periodic"
    /\ cfg.settings.ok
    /\ cfg.settings.hold = 1
    /\ cfg.settings.tmode = COOL
    /\ Len(posts) = 1
    /\ posts[1].payload = initial_settings
    /\ posts[1].outcome = "ok"
    /\ deviceConfig[cfg.dev].hold_set = 1

\* C2: every POST /tstat sent to a device carries tmode 0, tmode 1 or no tmode;
\* a request for mode COOL is rejected or clamped before transmission.
C2_NoCoolTransmitted ==
    \A i \in 1..Len(posts) : posts[i].payload.tmode \in {Absent, OFF, HEAT}

Executed(c) == c <= issued /\ \A i \in 1..Len(pending) : pending[i] # c

\* C3: every command returned by the poll has exactly one acknowledgment with
\* its id appended to the queue once it has been executed, whatever its type
\* and outcome; no command ever has two.
C3_ExactlyOneAck ==
    \A c \in CmdIds : ackCount[c] = IF Executed(c) THEN 1 ELSE 0

\* two polled commands have been executed, one succeeded and one failed, and
\* each has its acknowledgment in the queue
C3_Witness ==
    /\ issued = 2
    /\ pending = <<>>
    /\ Len(command_acks) = 2
    /\ command_acks[1].cmd_id = 1 /\ command_acks[1].success
    /\ command_acks[2].cmd_id = 2 /\ ~command_acks[2].success
    /\ ackCount[1] = 1 /\ ackCount[2] = 1

\* C4: an acknowledgment that was appended to the queue is still in the queue,
\* or was in a results POST the remote accepted, or was dropped by the
\* overflow truncation, under every interleaving of the polling loop and the
\* flush loop.
C4_NoAckLost ==
    \A c \in CmdIds :
        ackCount[c] > 0 => c \in (AckIds(command_acks) \cup delivered \cup dropped)

\* C5: for every run of the minute upload the checkpoint after the run is at
\* least its value before the run; it is greater only if every batch of the
\* run was accepted; it is unchanged if a batch failed or there were no rows.
C5_CheckpointMonotonic ==
    minRun.before # Null =>
        /\ minRun.after >= minRun.before
        /\ (minRun.after > minRun.before => minRun.rows # <<>> /\ minRun.failed_at = 0)
        /\ (minRun.rows = <<>> \/ minRun.failed_at # 0 => minRun.after = minRun.before)

\* C6: the minute_upload checkpoint, its initial value included, is never at
\* or past the minute timestamp of a stored row that has not been in an
\* accepted batch, so every stored row is still selected by a later upload.
C6_CheckpointBehindUndelivered ==
    \A r \in minute_readings :
        (checkpoint # Null /\ r.minute_ts <= checkpoint) => r \in acceptedRows

Executing == {c \in DiscCmds : discRun[c].pc = "running"}

IsSetState == lastCmd.op = "remote" /\ lastCmd.cmd.command = "set_state"

\* the read-back agrees with the payload sent: mode and hold equal and, for
\* HEAT, the setpoint within the tolerance
ReadbackMatches(readback, payload) ==
    /\ readback.ok
    /\ readback.tmode = payload.tmode
    /\ readback.hold = payload.hold
    /\ payload.tmode = HEAT =>
           /\ readback.t_heat # Null
           /\ Abs(readback.t_heat - payload.t_heat) <= ReadbackTolerance

PostAccepted == posts # <<>> /\ posts[1].outcome = "ok"

\* C8: a set_state command succeeds, and the stored configuration of a device
\* shows the sent mode, hold and HEAT setpoint, only when the POST was accepted
\* and the read-back matches; an accepted POST whose read-back mismatches or
\* is not obtained gives a failed command and an unchanged configuration.
C8_VerifiedSuccess ==
    IsSetState =>
        /\ lastCmd.result.success =>
               PostAccepted /\ ReadbackMatches(lastCmd.readback, posts[1].payload)
        /\ \A d \in Devices : deviceConfig[d] # NoConfigRow =>
               /\ lastCmd.result.success
               /\ d = lastCmd.cmd.thermostat_id
               /\ deviceConfig[d] = save_config_to_database(NoConfigRow, posts[1].payload)
        /\ (PostAccepted /\ ~ReadbackMatches(lastCmd.readback, posts[1].payload)) =>
               /\ ~lastCmd.result.success
               /\ deviceConfig = [d \in Devices |-> NoConfigRow]

\* a HEAT command succeeded on a read-back within the tolerance of the
\* requested setpoint, and the configuration shows what was sent
C8_Witness ==
    /\ IsSetState
    /\ lastCmd.result.success
    /\ posts[1].payload.tmode = HEAT
    /\ lastCmd.readback.t_heat = posts[1].payload.t_heat + 5
    /\ deviceConfig["d1"].t_heat_set = Deg(70)
    /\ deviceConfig["d1"].hold_set = 0

NoDeviceRequest == posts = <<>> /\ lastCmd.gets = 0

\* C9: set_state validation rejects, in this order, a tmode outside {0,1}, a
\* hold outside {0,1}, and HEAT without t_heat, the first failing check giving
\* the error; OFF with a t_heat is not rejected for it: the payload sent is
\* exactly {tmode: 0, hold} and a confirming read-back gives success; a
\* command that fails validation causes no request to a device.
C9_ValidationOrder ==
    IsSetState =>
        LET p == lastCmd.cmd.params
            tmodeOk == p.tmode \in {OFF, HEAT}
            holdOk == p.hold \in {0, 1}
        IN  /\ ~tmodeOk =>
                   /\ lastCmd.result.error = "Invalid or missing tmode (expected 0 or 1)"
                   /\ ~lastCmd.result.success /\ NoDeviceRequest
            /\ (tmodeOk /\ ~holdOk) =>
                   /\ lastCmd.result.error = "Invalid or missing hold (expected 0 or 1)"
                   /\ ~lastCmd.result.success /\ NoDeviceRequest
            /\ (p.tmode = HEAT /\ holdOk /\ p.t_heat \in {Absent, Null}) =>
                   /\ lastCmd.result.error = "Missing t_heat for HEAT mode"
                   /\ ~lastCmd.result.success /\ NoDeviceRequest
            /\ (p.tmode = OFF /\ holdOk) =>
                   /\ lastCmd.result.error # "t_heat must be omitted when tmode == 0"
                   /\ posts # <<>> => posts[1].payload = [NoPayload EXCEPT !.tmode = OFF, !.hold = p.hold]
                   /\ (PostAccepted /\ ReadbackMatches(lastCmd.readback, posts[1].payload)) =>
                          lastCmd.result.success

\* an OFF command that carried a setpoint was sent without it and succeeded
C9_Witness ==
    /\ IsSetState
    /\ lastCmd.cmd.params.tmode = OFF
    /\ lastCmd.cmd.params.t_heat = Deg(70)
    /\ lastCmd.cmd.params.hold = 1
    /\ lastCmd.result.success
    /\ posts[1].payload = [NoPayload EXCEPT !.tmode = OFF, !.hold = 1]
    /\ tstat["d1"].tmode = OFF

\* a number in [41.0, 76.0]
AwayTempInRange(v) ==
    /\ v \notin {Absent, Null, NonNumeric, NaN}
    /\ AwayTempMin <= v
    /\ v <= AwayTempMax

\* C10: a set_away_temp whose away_temp is missing, not a number, below 41.0
\* or above 76.0 is rejected before any store write and leaves the stored away
\* temperature unchanged; a value in [41.0, 76.0] leads to exactly one update.
C10_AwayTempValidated ==
    (lastCmd.op = "remote" /\ lastCmd.cmd.command = "set_away_temp") =>
        IF AwayTempInRange(lastCmd.cmd.params.away_temp)
        THEN lastCmd.store_writes = 1
        ELSE /\ ~lastCmd.result.success
             /\ lastCmd.store_writes = 0
             /\ \A d \in Devices : thermostats[d].away_temp = Deg(50)

\* the dates Nov 16 .. Apr 14 (across the year boundary) and Apr 15 .. Nov 15
Nov16ToApr14(md) ==
    \/ md[1] \in {12, 1, 2, 3}
    \/ md[1] = 11 /\ md[2] >= 16
    \/ md[1] = 4 /\ md[2] <= 14

Apr15ToNov15(md) ==
    \/ md[1] \in 5..10
    \/ md[1] = 4 /\ md[2] >= 15
    \/ md[1] = 11 /\ md[2] <= 15

\* C11: the seasonal default depends on the date alone: on every date from
\* Nov 16 through Apr 14 it is HEAT with setpoint 50 and the fan off, on every
\* date from Apr 15 through Nov 15 it is OFF with the fan off and no setpoint,
\* and it is COOL on no date.
C11_SeasonalDefault ==
    seasonal_result # NoSeasonal =>
        /\ seasonal_result = determine_seasonal_config(date_today)
        /\ Nov16ToApr14(date_today) =>
               seasonal_result.config = [NoPayload EXCEPT !.tmode = HEAT, !.t_heat = Deg(50), !.fmode = 0]
        /\ Apr15ToNov15(date_today) =>
               seasonal_result.config = [NoPayload EXCEPT !.tmode = OFF, !.fmode = 0]
        /\ Nov16ToApr14(date_today) \/ Apr15ToNov15(date_today)
        /\ seasonal_result.config.tmode # COOL

C11_Witness ==
    /\ date_today = <<4, 14>>
    /\ seasonal_result.config.tmode = HEAT

PreservedRun == cfg.pc = "done" /\ cfg.settings.ok /\ cfg.settings.hold = 1

UpsertStep == \E t \in RegTasks : reg[t].pc = "upsert" /\ reg'[t].pc # "upsert"

\* C14: however often the registration path runs for a device id, and however
\* its runs overlap, the thermostats table never holds more than one row for
\* the id, holds one once an upsert for it succeeded, and an upsert never
\* changes an away temperature already stored for the device.
C14_RegistrationIdempotent ==
    [][\A d \in Devices :
          /\ inserted'[d] <= 1
          /\ thermostats'[d].present <=> inserted'[d] = 1
          /\ (UpsertStep /\ thermostats[d].present /\ thermostats[d].away_temp # Null)
                => thermostats'[d].away_temp = thermostats[d].away_temp]_vars

C14_Witness ==
    /\ registrations = 3
    /\ \A t \in RegTasks : reg[t].pc = "configure" /\ reg[t].dev = "d1"
    /\ reg["t1"].away_temp = DefaultAwayTemp
    /\ thermostats["d1"].away_temp = Deg(60)
    /\ inserted["d2"] = 1

\* the monitored fields in which two readings differ, as the claim counts them
Differing(a, b) ==
    {f \in {"temp"} : Abs(b.temp - a.temp) >= Deg(1) \div 2}
    \cup {f \in {"t_heat", "tmode", "tstate", "hold", "override"} : a[f] # b[f]}

\* C15: for two consecutive readings, no change is reported when the
\* temperatures are less than 0.5 apart and the five other fields are equal;
\* when exactly one of the six fields differs, a change is reported and the
\* diff holds exactly that field.
C15_DetectStateChange ==
    \A i \in 1..Len(detected) :
        /\ Differing(prev_reading, cur_reading) = {} =>
               ~detected[i].state_changed /\ detected[i].changed_fields = {}
        /\ \A f \in {"temp", "t_heat", "tmode", "tstate", "hold", "override"} :
               Differing(prev_reading, cur_reading) = {f} =>
                   detected[i].state_changed /\ detected[i].changed_fields = {f}

C15_Witness ==
    /\ cur_reading = [prev_reading EXCEPT !.temp = Deg(70) + 50]
    /\ prev_reading.temp = Deg(70)
    /\ detected # <<>>
    /\ detected[1].changed_fields = {"temp"}

\* C16: the first successful reading of a device after process start is not
\* reported as a change and queues no immediate upload, whatever its values;
\* it becomes the cached reading of the device.
C16_FirstReadingIsBaseline ==
    [][\A d \in Devices :
          (last_states[d] = NoReading /\ last_states'[d] # NoReading) =>
              /\ lastPoll'.dev = d
              /\ lastPoll'.first
              /\ ~lastPoll'.state_changed
              /\ upload_queue' = upload_queue
              /\ last_states'[d] \in PollReadings]_vars

C16_Witness ==
    /\ lastPoll.dev = "d2"
    /\ lastPoll.first
    /\ lastPoll.cached
    /\ last_states["d2"].tmode = HEAT
    /\ last_states["d1"].tmode = OFF
    /\ upload_queue = <<"d1">>

\* C17: when a polling cycle is over, a result has been persisted for every
\* active device polled in it, whether its HTTP poll succeeded or failed
\* (a device whose store write itself failed is left aside).
C17_EveryResultPersisted ==
    pollCycle.pc = "done" =>
        pollCycle.polled \ pollCycle.store_failed \subseteq pollCycle.saved

\* C18: the status_upload checkpoint of the store is written only directly
\* after an upload that the remote service accepted; it is not advanced after
\* a fallback upload that failed or raised. (The first write of a checkpoint
\* that the store does not hold yet is left aside.)
C18_CheckpointAfterAcceptedUpload ==
    /\ (lastStatusWrite.by # "none" /\ lastStatusWrite.existed) =>
           lastStatusWrite.upload = "accepted"
    /\ lastFallback.outcome \in {"failed", "raised", "no_data"} => ~lastFallback.advanced

\* C19 as stated: at a fallback tick the snapshot upload is done if and only
\* if no flush of the immediate batch, accepted or not, took place within the
\* status_upload_seconds before the tick.
C19_FallbackIffNoFlush ==
    lastTick.ticked => (lastTick.uploaded <=> ~lastTick.flush_in_window)

\* C19: at a fallback tick the snapshot upload is done if and only if at least
\* status_upload_seconds have passed since the marker, which only a flush the
\* remote service accepted moves, to the time read before that flush was sent
\* (before any such flush it is the time the upload services were created).
C19_FallbackIffNoAcceptedFlush ==
    lastTick.ticked => (lastTick.uploaded <=> ~lastTick.accepted_in_window)

C19_Witness ==
    /\ lastTick.ticked
    /\ lastTick.uploaded
    /\ lastTick.flush_in_window
    /\ ~lastTick.accepted

\* C20: for every outbound POST (status upload, minute upload, acknowledgment
\* batch, discovery progress, registration) a response 422 is the last one of
\* the attempt sequence and the POST fails; no attempt follows it.
C20_ValidationNeverRetried ==
    \A i \in 1..Len(postRun.responses) :
        postRun.responses[i] = 422 =>
            /\ i = Len(postRun.responses)
            /\ postRun.result = "false"

CeilDiv(a, b) == (a + b - 1) \div b
Min(a, b) == IF a < b THEN a ELSE b

\* C21: a TCP range scan over N addresses has invoked the progress callback
\* exactly ceil(N/10) times when it returns: the i-th invocation comes after
\* address 10*i, or after address N when that is the last one, and the last
\* invocation reports ips_scanned = ips_total = N.
C21_CallbackPerCheckpoint ==
    scan.pc = "done" =>
        /\ Len(scan.reported) = CeilDiv(scan.ips_total, CheckpointEvery)
        /\ \A i \in 1..Len(scan.reported) :
               /\ scan.reported[i].ips_scanned = Min(CheckpointEvery * i, scan.ips_total)
               /\ scan.reported[i].ips_total = scan.ips_total
        /\ scan.reported # <<>> =>
               scan.reported[Len(scan.reported)].ips_scanned = scan.ips_total

C21_Witness ==
    /\ scan.pc = "done"
    /\ scan.ips_total % CheckpointEvery # 0
    /\ Len(scan.reported) = 3
    /\ scan.reported[1].new_devices = 2

\* phases_to_run that is missing, not a list, empty, or names an unknown phase
Rejectable(p) ==
    \/ p.kind \in {"missing", "string"}
    \/ p.kind = "list" /\ (p.phases = {} \/ ~(p.phases \subseteq ValidPhases))

\* C22: a discover_devices command whose phases_to_run is missing, empty, not
\* a list or names an unknown phase ends FAILED with a structured error code,
\* runs no phase, and leaves active_discovery and phase_history as they were.
C22_InvalidPhasesRejected ==
    [][\A c \in DiscCmds :
          Rejectable(discRun'[c].params) =>
              /\ discRun'[c].ran = {} /\ discRun'[c].current = ""
              /\ discRun[c].pc = "idle" =>
                     /\ discRun'[c].pc = "done"
                     /\ discResult'[c].status = "failed"
                     /\ discResult'[c].code \in {"MISSING_PHASES_TO_RUN", "INVALID_PHASES_TO_RUN",
                                                 "INVALID_PHASE"}
                     /\ active_discovery' = active_discovery
                     /\ phase_history' = phase_history]_vars

C22_Witness ==
    /\ discRun["c2"].params.phases = {"database", "bogus"}
    /\ discResult["c2"].code = "INVALID_PHASE"
    /\ active_discovery = "c1"
    /\ phase_history["database"] = "inprogress"

\* C23: when a remote discovery command that requested registration is
\* complete, every newly found device has a row in the thermostats table of
\* the store, as the local registration path would have given it, and the
\* registration outcome is part of the result.
C23_RemoteRegistrationAsLocal ==
    (remoteReg.pc = "done" /\ remoteReg.apply_initial_config /\ remoteReg.devices_found # {}) =>
        /\ remoteReg.registration_results.present
        /\ \A d \in remoteReg.new_devices : thermostats[d].present

\* C24: when the startup discovery is over and start goes on, then, if the
\* database and UDP phases found nothing, a full TCP range scan has been run
\* to completion; and the background TCP task, once it has ended, has run a
\* TCP range scan.
C24_TcpScanAfterStartup ==
    /\ (srv.pc \in {"create_tasks", "serving"} /\ srv.devices = {}) => srv.tcp_scan = "completed"
    /\ taskState["tcp_task"] = "finished" => srv.tcp_scan = "completed"

\* position of an entry in the log of stop, 0 when it is not there
LogIndex(e) ==
    IF \E i \in 1..Len(stopLog) : stopLog[i] = e
    THEN CHOOSE i \in 1..Len(stopLog) : stopLog[i] = e
    ELSE 0

\* C27: once stop has completed, no task the server started is still
\* pending: each was cancelled or has finished; the acknowledgments left
\* were sent before the session was closed, and the database was closed
\* after the tasks were cancelled.
C27_NothingRunsAfterStop ==
    /\ srv.stop_pc = "stopped" => \A t \in TaskNames : taskState[t] # "pending"
    /\ (LogIndex("send_command_acks") > 0 /\ LogIndex("session_close") > 0)
          => LogIndex("send_command_acks") < LogIndex("session_close")
    /\ LogIndex("db_close") > 0
          => (LogIndex("tasks_cancelled") > 0 /\ LogIndex("tasks_cancelled") < LogIndex("db_close"))

\* C26: when a phase of the startup discovery fails as a whole (the
\* database lookup raises, the multicast socket cannot be created, the
\* multicast cannot be sent), the discovery engine raises nothing to its
\* caller: the phase counts as zero devices and startup goes on.
C26_PhaseFailureNotPropagated ==
    (srv.combined.called /\ (srv.combined.db_failed \/ srv.combined.udp_failure # "none"))
        => (~srv.combined.raised /\ srv.pc # "start_failed")

\* what a phase discovers when it is run on its own
DiscoversAlone(phase) ==
    IF phase = "database" THEN (IF sweep.db_ok THEN sweep.discoverable.database ELSE {})
    ELSE IF phase = "udp_discovery"
         THEN (IF sweep.udp_failure = "none" THEN sweep.discoverable.udp_discovery ELSE {})
    ELSE sweep.discoverable.tcp_discovery

\* C25: when a discovery command has ended, the devices it reports are the
\* union of what each phase named in phases_to_run discovers on its own,
\* whatever the order of the names in the list.
C25_ReportedIsUnionOfPhases ==
    sweep.pc = "done" =>
        sweep.devices_found =
            UNION {DiscoversAlone(sweep.phases_to_run[i]) : i \in 1..Len(sweep.phases_to_run)}

\* the writes of the run that carry a mode or a setpoint
ModeWrites ==
    {i \in ConfigWrites : posts[i].payload.tmode # Absent \/ posts[i].payload.t_heat # Absent}

\* C28: a run of the policy has sent a mode/setpoint command exactly when
\* the settings read reported hold = 0 or failed; every such command has the
\* mode and the setpoint of the seasonal default of the day and hold = 1 in
\* the same payload.
C28_SeasonalPushIffHoldOffOrUnreadable ==
    /\ cfg.pc = "done" =>
          (ModeWrites # {} <=> (~cfg.settings.ok \/ cfg.settings.hold = 0))
    /\ \A i \in ModeWrites :
          LET seasonal == determine_seasonal_config(cfg.today).config
          IN  /\ posts[i].payload.hold = 1
              /\ posts[i].payload.tmode = seasonal.tmode
              /\ posts[i].payload.t_heat = seasonal.t_heat

\* a device read with hold = 0 in the heating season got HEAT, 50 degrees
\* and hold = 1 in one command; a device that could not be read got the
\* same
C28_Witness ==
    /\ cfg.pc = "done"
    /\ cfg.today = <<11, 16>>
    /\ ModeWrites # {}
    /\ \E i \in ModeWrites :
          /\ posts[i].payload.tmode = HEAT
          /\ posts[i].payload.t_heat = Deg(50)
          /\ posts[i].payload.hold = 1
          /\ posts[i].outcome = "ok"
    /\ cfg.settings.ok
    /\ cfg.settings.hold = 0

\* C29: the step of a run that sends the seasonal push records the seasonal
\* mode, the setpoint when the mode is HEAT, and hold = 1 in the device's
\* DeviceConfigState row when the device answered 200; otherwise it leaves
\* the row as it was.
C29_RecordedIffAccepted ==
    [][(cfg.pc = "decide" /\ cfg'.pc = "done"
          /\ (~cfg.settings.ok \/ hold_disabled(cfg.settings)))
       => LET seasonal == determine_seasonal_config(cfg.today).config
              push == posts'[Len(posts) + 1]
              row == deviceConfig[cfg.dev]
          IN  IF push.outcome = "ok"
              THEN deviceConfig'[cfg.dev] =
                       [row EXCEPT !.tmode_set = seasonal.tmode,
                                   !.t_heat_set = IF seasonal.tmode = HEAT
                                                  THEN seasonal.t_heat ELSE @,
                                   !.hold_set = 1]
              ELSE deviceConfig'[cfg.dev] = row]_vars

\* C30: in a run whose settings read succeeded, no write that carries a
\* mode or a setpoint is sent to the device while the hold flag of the
\* device is 1, whatever the occupant does between the read, the fan-off
\* write and the seasonal push.
C30_NoModeWriteWhileHeld ==
    cfg.settings.ok => \A i \in ModeWrites : posts[i].hold_at_send # 1

\* the comparison of two readings on the six monitored fields
ReadingDiffers(prev, cur) ==
    \/ Abs(cur.temp - prev.temp) >= TempThreshold
    \/ \E f \in {"t_heat", "tmode", "tstate", "hold", "override"} : cur[f] # prev[f]

\* C31: a successful poll of a device that has a cached reading appends
\* exactly one immediate-upload request for that device to the queue when
\* the new reading differs from the cached one on a monitored field (the
\* temperature by at least 0.5 degrees), and leaves the queue as it was
\* otherwise, whatever kind of change it is.
C31_QueuedIffChanged ==
    [][(pollCycle.pc = "polling" /\ pollCycle'.todo # pollCycle.todo
          /\ lastPoll'.outcome = "ok" /\ ~lastPoll'.first)
       => LET d == lastPoll'.dev
          IN  upload_queue' = IF ReadingDiffers(last_states[d], last_states'[d])
                              THEN Append(upload_queue, d)
                              ELSE upload_queue]_vars

\* two later polls of d1 were changes and each left one request in the queue,
\* the last one with the mode unchanged
C31_Witness ==
    /\ lastPoll.outcome = "ok"
    /\ lastPoll.dev = "d1"
    /\ ~lastPoll.first
    /\ lastPoll.queued
    /\ upload_queue = <<"d1", "d1">>
    /\ last_states["d1"].tmode = OFF
    /\ last_states["d1"].hold = 0

\* C32: a device whose change was detected is eventually contained in an
\* accepted status upload, immediate or fallback, once the remote service
\* accepts uploads, whatever the other devices do.
C32_ChangeEventuallyUploaded ==
    \A d \in Devices : (d \in relay.owed) ~> (d \notin relay.owed)

\* C33: after a failed send the queue is what it was when the POST
\* returned, in the same order, if it held at most 100 acknowledgments, and
\* its 50 most recent acknowledgments if it held more; so it holds at most
\* 100.
C33_FailedSendKeepsOrTruncates ==
    (ackTrim.pc = "sent" /\ ~ackTrim.success) =>
        LET before == ackTrim.at_result
            n == Len(before)
        IN  /\ n <= 100 => ackTrim.after = before
            /\ n > 100 => ackTrim.after = [i \in 1..50 |-> before[n - 50 + i]]
            /\ Len(ackTrim.after) <= 100

\* a failed send of 101 acknowledgments left the 50 latest, 52 to 101
C33_Witness ==
    /\ ackTrim.pc = "sent"
    /\ ~ackTrim.success
    /\ Len(ackTrim.at_result) = 101
    /\ Len(ackTrim.after) = 50
    /\ ackTrim.after[1] = 52
    /\ ackTrim.after[50] = 101

RECURSIVE CallbackDevices(_)
\* the device lists of the first k invocations of the callback, concatenated
CallbackDevices(k) ==
    IF k = 0 THEN <<>> ELSE CallbackDevices(k - 1) \o scan.reported[k].devices

\* C34: throughout a TCP range scan the device lists handed to the callback
\* so far, followed by the devices found since the last checkpoint, are the
\* devices found so far, each once; each device was handed over at the
\* first checkpoint at or after its address; ips_scanned grows strictly from
\* one invocation to the next and ips_total is the same in all; when the
\* scan returns, nothing is left to hand over unless the range was empty.
C34_EachDeviceInOneCallback ==
    /\ CallbackDevices(Len(scan.reported)) \o scan.since_checkpoint = scan.found
    /\ \A i \in 1..Len(scan.reported) :
          /\ \A j \in 1..Len(scan.reported[i].devices) :
                LET a == scan.reported[i].devices[j]
                IN  /\ a <= scan.reported[i].ips_scanned
                    /\ i > 1 => a > scan.reported[i - 1].ips_scanned
          /\ i > 1 => scan.reported[i].ips_scanned > scan.reported[i - 1].ips_scanned
          /\ scan.reported[i].ips_total = scan.ips_total
    /\ scan.pc = "done" => scan.since_checkpoint = <<>>

\* devices at the addresses 2, 10 and 11 of 12: the first two were handed
\* over at the checkpoint of address 10, the third at the final one
C34_Witness ==
    /\ scan.pc = "done"
    /\ scan.ips_total = 12
    /\ scan.found = <<2, 10, 11>>
    /\ Len(scan.reported) = 2
    /\ scan.reported[1].devices = <<2, 10>>
    /\ scan.reported[2].devices = <<11>>

\* C35: while a discovery command runs, every update of a phase (waiting to
\* inprogress, inprogress to completed, each TCP checkpoint) has been reported
\* before the next one, and the handler's last report has exactly one entry
\* for each of the three phases, with that phase's current status and step
C35_EveryTransitionReported ==
    \A c \in DiscCmds :
        discRun[c].pc = "running" =>
            /\ progress.unreported = 0
            /\ DOMAIN progress.last_progress.phase_history = ValidPhases
            /\ \A ph \in ValidPhases :
                   /\ progress.last_progress.phase_history[ph] = phase_history[ph]
                   /\ progress.last_progress.phase_history[ph]
                          \in {"waiting", "skipped", "inprogress", "completed"}
            /\ progress.last_progress.action_step = progress.action_step

C35_Witness ==
    /\ discRun["c1"].pc = "running"
    /\ discRun["c1"].current = "tcp_discovery"
    /\ progress.action_step = MaxCheckpoints
    /\ progress.last_progress.phase_history["udp_discovery"] = "completed"
    /\ progress.last_progress.phase_history["tcp_discovery"] = "inprogress"
    /\ progress.last_progress.phase_history["database"] = "skipped"

\* C36: once an identity is recorded with a discovery method, in the
\* known-devices registry of the running process or in its thermostats row, a
\* later detection never changes the recorded method, while the recorded
\* address is the one of the latest response
C36_FirstWriterAttribution ==
    [][\A d \in Devices :
           /\ (identity.rows[d] # NoIdentity /\ identity'.rows[d] # identity.rows[d]) =>
                  /\ identity'.rows[d].discovery_method = identity.rows[d].discovery_method
                  /\ identity'.rows[d].ip = identity'.last_discovery.devices[d].ip
           /\ (identity.known_devices[d] # NoIdentity /\ identity'.started
               /\ identity'.known_devices[d] # identity.known_devices[d]) =>
                  /\ identity'.known_devices[d].discovery_method
                         = identity.known_devices[d].discovery_method
                  /\ identity'.known_devices[d].ip = identity'.device_ip[d]]_vars

\* C37: after a startup or periodic discovery that probed a device with a row
\* successfully, the row holds the probed address, and the next polling cycle
\* polls the device at that address
C37_ProbedAddressStored ==
    \A d \in Devices :
        (identity.last_discovery.devices[d] # NoIdentity /\ identity.rows[d] # NoIdentity) =>
            /\ identity.rows[d].ip = identity.last_discovery.devices[d].ip
            /\ identity.polled[d] \in {0, identity.last_discovery.devices[d].ip}

\* the place of a phase in the fixed order
PhaseIndex(ph) == CHOOSE i \in 1..3 : AllPhases[i] = ph

C39_MarkerClearedOnReturn ==
    [][\A c \in DiscCmds :
           /\ (discRun[c].pc = "running" /\ discRun'[c].pc = "done") =>
                  active_discovery' = NoDiscovery
           /\ (discRun[c].pc = "idle" /\ discRun'[c].pc = "done") =>
                  active_discovery' = active_discovery
           /\ (/\ discRun[c].pc = "idle"
               /\ discRun'[c].pc # "idle"
               /\ validate_command(discRun'[c].params) = ""
               /\ \A o \in DiscCmds : discRun[o].pc # "running") =>
                  /\ discRun'[c].pc = "running"
                  /\ active_discovery' = c]_vars

\* a command accepted after the command before it failed in a phase
C39_Witness ==
    /\ discResult["c1"].code = "DISCOVERY_EXECUTION_ERROR"
    /\ discRun["c2"].pc = "running"
    /\ active_discovery = "c2"
    /\ progress.history_of = "c2"

\* C40: the final progress report sent for a discovery command that was
\* accepted and has terminated describes that command's own phases and has no phase inprogress or
\* waiting: on completed every requested phase is completed and every other
\* phase skipped, on failed no phase is left inprogress
C40_FinalReportClosed ==
    \A c \in DiscCmds :
        LET final == progress.final[c]
        IN  (final.report # NoReport /\ discResult[c].code \in {"", "DISCOVERY_EXECUTION_ERROR"}) =>
                /\ final.describes = c
                /\ \A ph \in ValidPhases :
                       final.report.phase_history[ph] \in {"completed", "skipped"}
                /\ final.report.status = "completed" =>
                       \A ph \in ValidPhases :
                           final.report.phase_history[ph] =
                               IF ph \in discRun[c].phases_to_run THEN "completed" ELSE "skipped"

====
